---- MODULE Spec2Model ----
(***************************************************************************)
(* The CPU TDP table builder of nf-co2footprint:                           *)
(*   GreenAlgorithms/pre_process.py  - the Green-Algorithms normalizer     *)
(*   merge.py                        - the multi-source merger             *)
(*                                                                         *)
(* Text is a sequence of characters.  An ASCII character is a one-character *)
(* string, the control characters among them as TLA+ writes them ("\t",     *)
(* "\n", "\r", "\f"); any other character is the token "U+XXXX" of its      *)
(* code point, but for the two glyphs U+00AE and U+2122, written RegSign    *)
(* and TmSign.  A source URL is one opaque element: no operation of the    *)
(* code looks inside it.                                                    *)
(* A Python int is an integer of any size, a Python float an IEEE-754      *)
(* double; both are records [cls, neg, m, e] with the magnitude m a        *)
(* sequence of limbs in base 2^15, least significant first:                *)
(*   int      cls = "int", value (-1)^neg * m                              *)
(*   float    cls = "fin", value (-1)^neg * m * 2^e                        *)
(*            cls = "inf", cls = "nan"                                     *)
(* Str(x) is the text Python prints for either.                            *)
(***************************************************************************)
EXTENDS Integers, Sequences, FiniteSets, TLC

VARIABLES
    files,          \* the input files of merge.py, by source
    pc,             \* position of the running script
    i,              \* index of the next row (csv_reader) or column (processor_data.items())
    fileIdx,        \* read_and_process_intel: index into os.listdir(root_dir)
    processor_data, \* read_and_process_intel: the dict built from the current file
    tdp,            \* read_and_process_intel: the function's local variable tdp
    processors,     \* merge.py: the shared dict, in insertion order
    log,            \* what has been printed
    out,            \* ../TDP_cpu.v2.2.csv as written by merge.py
    err,            \* the uncaught exception that ended the script, or NoError
    df,             \* pre_process.py: the data frame
    updated         \* pre_process.py: TDP_cpu.v2.2.updated.csv as written

vars == <<files, pc, i, fileIdx, processor_data, tdp, processors, log, out, err, df, updated>>

----------------------------------------------------------------------------
(* Bounds of the model *)

\* rows of a vendor CSV file
MaxRows == 2
\* family files in the Intel directory
MaxFiles == 2
\* rows of the Green-Algorithms dataset read by pre_process.py
MaxPreRows == 2

----------------------------------------------------------------------------
(* Text *)

RegSign == "(R)"
TmSign == "(TM)"
\* csv.DictReader's restval: the value of a column the row is too short for;
\* pandas' NaN for an empty cell
NoneCell == <<"None">>

\* the characters str.strip() takes for whitespace: those for which
\* str.isspace() is true
Whitespace ==
    {" ", "\t", "\n", "\r", "\f", "U+000B", "U+001C", "U+001D", "U+001E", "U+001F",
     "U+0085", "U+00A0", "U+1680", "U+2000", "U+2001", "U+2002", "U+2003", "U+2004",
     "U+2005", "U+2006", "U+2007", "U+2008", "U+2009", "U+200A", "U+2028", "U+2029",
     "U+202F", "U+205F", "U+3000"}

DigitChars == <<"0", "1", "2", "3", "4", "5", "6", "7", "8", "9">>

\* the decimal digits of the other scripts (Unicode category Nd), zero to nine,
\* which int() and float() read as the ASCII digits
UnicodeDigitRows ==
    <<
     <<"U+0660", "U+0661", "U+0662", "U+0663", "U+0664", "U+0665", "U+0666", "U+0667", "U+0668", "U+0669">>,
     <<"U+06F0", "U+06F1", "U+06F2", "U+06F3", "U+06F4", "U+06F5", "U+06F6", "U+06F7", "U+06F8", "U+06F9">>,
     <<"U+07C0", "U+07C1", "U+07C2", "U+07C3", "U+07C4", "U+07C5", "U+07C6", "U+07C7", "U+07C8", "U+07C9">>,
     <<"U+0966", "U+0967", "U+0968", "U+0969", "U+096A", "U+096B", "U+096C", "U+096D", "U+096E", "U+096F">>,
     <<"U+09E6", "U+09E7", "U+09E8", "U+09E9", "U+09EA", "U+09EB", "U+09EC", "U+09ED", "U+09EE", "U+09EF">>,
     <<"U+0A66", "U+0A67", "U+0A68", "U+0A69", "U+0A6A", "U+0A6B", "U+0A6C", "U+0A6D", "U+0A6E", "U+0A6F">>,
     <<"U+0AE6", "U+0AE7", "U+0AE8", "U+0AE9", "U+0AEA", "U+0AEB", "U+0AEC", "U+0AED", "U+0AEE", "U+0AEF">>,
     <<"U+0B66", "U+0B67", "U+0B68", "U+0B69", "U+0B6A", "U+0B6B", "U+0B6C", "U+0B6D", "U+0B6E", "U+0B6F">>,
     <<"U+0BE6", "U+0BE7", "U+0BE8", "U+0BE9", "U+0BEA", "U+0BEB", "U+0BEC", "U+0BED", "U+0BEE", "U+0BEF">>,
     <<"U+0C66", "U+0C67", "U+0C68", "U+0C69", "U+0C6A", "U+0C6B", "U+0C6C", "U+0C6D", "U+0C6E", "U+0C6F">>,
     <<"U+0CE6", "U+0CE7", "U+0CE8", "U+0CE9", "U+0CEA", "U+0CEB", "U+0CEC", "U+0CED", "U+0CEE", "U+0CEF">>,
     <<"U+0D66", "U+0D67", "U+0D68", "U+0D69", "U+0D6A", "U+0D6B", "U+0D6C", "U+0D6D", "U+0D6E", "U+0D6F">>,
     <<"U+0DE6", "U+0DE7", "U+0DE8", "U+0DE9", "U+0DEA", "U+0DEB", "U+0DEC", "U+0DED", "U+0DEE", "U+0DEF">>,
     <<"U+0E50", "U+0E51", "U+0E52", "U+0E53", "U+0E54", "U+0E55", "U+0E56", "U+0E57", "U+0E58", "U+0E59">>,
     <<"U+0ED0", "U+0ED1", "U+0ED2", "U+0ED3", "U+0ED4", "U+0ED5", "U+0ED6", "U+0ED7", "U+0ED8", "U+0ED9">>,
     <<"U+0F20", "U+0F21", "U+0F22", "U+0F23", "U+0F24", "U+0F25", "U+0F26", "U+0F27", "U+0F28", "U+0F29">>,
     <<"U+1040", "U+1041", "U+1042", "U+1043", "U+1044", "U+1045", "U+1046", "U+1047", "U+1048", "U+1049">>,
     <<"U+1090", "U+1091", "U+1092", "U+1093", "U+1094", "U+1095", "U+1096", "U+1097", "U+1098", "U+1099">>,
     <<"U+17E0", "U+17E1", "U+17E2", "U+17E3", "U+17E4", "U+17E5", "U+17E6", "U+17E7", "U+17E8", "U+17E9">>,
     <<"U+1810", "U+1811", "U+1812", "U+1813", "U+1814", "U+1815", "U+1816", "U+1817", "U+1818", "U+1819">>,
     <<"U+1946", "U+1947", "U+1948", "U+1949", "U+194A", "U+194B", "U+194C", "U+194D", "U+194E", "U+194F">>,
     <<"U+19D0", "U+19D1", "U+19D2", "U+19D3", "U+19D4", "U+19D5", "U+19D6", "U+19D7", "U+19D8", "U+19D9">>,
     <<"U+1A80", "U+1A81", "U+1A82", "U+1A83", "U+1A84", "U+1A85", "U+1A86", "U+1A87", "U+1A88", "U+1A89">>,
     <<"U+1A90", "U+1A91", "U+1A92", "U+1A93", "U+1A94", "U+1A95", "U+1A96", "U+1A97", "U+1A98", "U+1A99">>,
     <<"U+1B50", "U+1B51", "U+1B52", "U+1B53", "U+1B54", "U+1B55", "U+1B56", "U+1B57", "U+1B58", "U+1B59">>,
     <<"U+1BB0", "U+1BB1", "U+1BB2", "U+1BB3", "U+1BB4", "U+1BB5", "U+1BB6", "U+1BB7", "U+1BB8", "U+1BB9">>,
     <<"U+1C40", "U+1C41", "U+1C42", "U+1C43", "U+1C44", "U+1C45", "U+1C46", "U+1C47", "U+1C48", "U+1C49">>,
     <<"U+1C50", "U+1C51", "U+1C52", "U+1C53", "U+1C54", "U+1C55", "U+1C56", "U+1C57", "U+1C58", "U+1C59">>,
     <<"U+A620", "U+A621", "U+A622", "U+A623", "U+A624", "U+A625", "U+A626", "U+A627", "U+A628", "U+A629">>,
     <<"U+A8D0", "U+A8D1", "U+A8D2", "U+A8D3", "U+A8D4", "U+A8D5", "U+A8D6", "U+A8D7", "U+A8D8", "U+A8D9">>,
     <<"U+A900", "U+A901", "U+A902", "U+A903", "U+A904", "U+A905", "U+A906", "U+A907", "U+A908", "U+A909">>,
     <<"U+A9D0", "U+A9D1", "U+A9D2", "U+A9D3", "U+A9D4", "U+A9D5", "U+A9D6", "U+A9D7", "U+A9D8", "U+A9D9">>,
     <<"U+A9F0", "U+A9F1", "U+A9F2", "U+A9F3", "U+A9F4", "U+A9F5", "U+A9F6", "U+A9F7", "U+A9F8", "U+A9F9">>,
     <<"U+AA50", "U+AA51", "U+AA52", "U+AA53", "U+AA54", "U+AA55", "U+AA56", "U+AA57", "U+AA58", "U+AA59">>,
     <<"U+ABF0", "U+ABF1", "U+ABF2", "U+ABF3", "U+ABF4", "U+ABF5", "U+ABF6", "U+ABF7", "U+ABF8", "U+ABF9">>,
     <<"U+FF10", "U+FF11", "U+FF12", "U+FF13", "U+FF14", "U+FF15", "U+FF16", "U+FF17", "U+FF18", "U+FF19">>,
     <<"U+104A0", "U+104A1", "U+104A2", "U+104A3", "U+104A4", "U+104A5", "U+104A6", "U+104A7", "U+104A8", "U+104A9">>,
     <<"U+10D30", "U+10D31", "U+10D32", "U+10D33", "U+10D34", "U+10D35", "U+10D36", "U+10D37", "U+10D38", "U+10D39">>,
     <<"U+11066", "U+11067", "U+11068", "U+11069", "U+1106A", "U+1106B", "U+1106C", "U+1106D", "U+1106E", "U+1106F">>,
     <<"U+110F0", "U+110F1", "U+110F2", "U+110F3", "U+110F4", "U+110F5", "U+110F6", "U+110F7", "U+110F8", "U+110F9">>,
     <<"U+11136", "U+11137", "U+11138", "U+11139", "U+1113A", "U+1113B", "U+1113C", "U+1113D", "U+1113E", "U+1113F">>,
     <<"U+111D0", "U+111D1", "U+111D2", "U+111D3", "U+111D4", "U+111D5", "U+111D6", "U+111D7", "U+111D8", "U+111D9">>,
     <<"U+112F0", "U+112F1", "U+112F2", "U+112F3", "U+112F4", "U+112F5", "U+112F6", "U+112F7", "U+112F8", "U+112F9">>,
     <<"U+11450", "U+11451", "U+11452", "U+11453", "U+11454", "U+11455", "U+11456", "U+11457", "U+11458", "U+11459">>,
     <<"U+114D0", "U+114D1", "U+114D2", "U+114D3", "U+114D4", "U+114D5", "U+114D6", "U+114D7", "U+114D8", "U+114D9">>,
     <<"U+11650", "U+11651", "U+11652", "U+11653", "U+11654", "U+11655", "U+11656", "U+11657", "U+11658", "U+11659">>,
     <<"U+116C0", "U+116C1", "U+116C2", "U+116C3", "U+116C4", "U+116C5", "U+116C6", "U+116C7", "U+116C8", "U+116C9">>,
     <<"U+11730", "U+11731", "U+11732", "U+11733", "U+11734", "U+11735", "U+11736", "U+11737", "U+11738", "U+11739">>,
     <<"U+118E0", "U+118E1", "U+118E2", "U+118E3", "U+118E4", "U+118E5", "U+118E6", "U+118E7", "U+118E8", "U+118E9">>,
     <<"U+11950", "U+11951", "U+11952", "U+11953", "U+11954", "U+11955", "U+11956", "U+11957", "U+11958", "U+11959">>,
     <<"U+11C50", "U+11C51", "U+11C52", "U+11C53", "U+11C54", "U+11C55", "U+11C56", "U+11C57", "U+11C58", "U+11C59">>,
     <<"U+11D50", "U+11D51", "U+11D52", "U+11D53", "U+11D54", "U+11D55", "U+11D56", "U+11D57", "U+11D58", "U+11D59">>,
     <<"U+11DA0", "U+11DA1", "U+11DA2", "U+11DA3", "U+11DA4", "U+11DA5", "U+11DA6", "U+11DA7", "U+11DA8", "U+11DA9">>,
     <<"U+16A60", "U+16A61", "U+16A62", "U+16A63", "U+16A64", "U+16A65", "U+16A66", "U+16A67", "U+16A68", "U+16A69">>,
     <<"U+16AC0", "U+16AC1", "U+16AC2", "U+16AC3", "U+16AC4", "U+16AC5", "U+16AC6", "U+16AC7", "U+16AC8", "U+16AC9">>,
     <<"U+16B50", "U+16B51", "U+16B52", "U+16B53", "U+16B54", "U+16B55", "U+16B56", "U+16B57", "U+16B58", "U+16B59">>,
     <<"U+1D7CE", "U+1D7CF", "U+1D7D0", "U+1D7D1", "U+1D7D2", "U+1D7D3", "U+1D7D4", "U+1D7D5", "U+1D7D6", "U+1D7D7">>,
     <<"U+1D7D8", "U+1D7D9", "U+1D7DA", "U+1D7DB", "U+1D7DC", "U+1D7DD", "U+1D7DE", "U+1D7DF", "U+1D7E0", "U+1D7E1">>,
     <<"U+1D7E2", "U+1D7E3", "U+1D7E4", "U+1D7E5", "U+1D7E6", "U+1D7E7", "U+1D7E8", "U+1D7E9", "U+1D7EA", "U+1D7EB">>,
     <<"U+1D7EC", "U+1D7ED", "U+1D7EE", "U+1D7EF", "U+1D7F0", "U+1D7F1", "U+1D7F2", "U+1D7F3", "U+1D7F4", "U+1D7F5">>,
     <<"U+1D7F6", "U+1D7F7", "U+1D7F8", "U+1D7F9", "U+1D7FA", "U+1D7FB", "U+1D7FC", "U+1D7FD", "U+1D7FE", "U+1D7FF">>,
     <<"U+1E140", "U+1E141", "U+1E142", "U+1E143", "U+1E144", "U+1E145", "U+1E146", "U+1E147", "U+1E148", "U+1E149">>,
     <<"U+1E2F0", "U+1E2F1", "U+1E2F2", "U+1E2F3", "U+1E2F4", "U+1E2F5", "U+1E2F6", "U+1E2F7", "U+1E2F8", "U+1E2F9">>,
     <<"U+1E950", "U+1E951", "U+1E952", "U+1E953", "U+1E954", "U+1E955", "U+1E956", "U+1E957", "U+1E958", "U+1E959">>,
     <<"U+1FBF0", "U+1FBF1", "U+1FBF2", "U+1FBF3", "U+1FBF4", "U+1FBF5", "U+1FBF6", "U+1FBF7", "U+1FBF8", "U+1FBF9">>
    >>

\* the characters int() and float() read as digits
DecimalDigits ==
    {DigitChars[k] : k \in 1..10}
        \cup {UnicodeDigitRows[r][k] : r \in 1..Len(UnicodeDigitRows), k \in 1..10}

\* the value of every decimal digit
DigitVal ==
    [c \in DecimalDigits |->
        IF \E k \in 1..10 : DigitChars[k] = c
        THEN (CHOOSE k \in 1..10 : DigitChars[k] = c) - 1
        ELSE (CHOOSE k \in 1..10 : \E r \in 1..Len(UnicodeDigitRows) : UnicodeDigitRows[r][k] = c) - 1]

\* old occurs in s at position k
MatchAt(s, old, k) ==
    /\ k + Len(old) - 1 <= Len(s)
    /\ \A j \in 1..Len(old) : s[k + j - 1] = old[j]

\* `sub in s`
Contains(s, sub) == \E k \in 1..(Len(s) + 1) : MatchAt(s, sub, k)

\* s.replace(old, ""): left to right, non-overlapping, a single pass
RECURSIVE ReplaceFrom(_, _, _)
ReplaceFrom(s, old, k) ==
    IF k > Len(s) THEN <<>>
    ELSE IF MatchAt(s, old, k) THEN ReplaceFrom(s, old, k + Len(old))
    ELSE <<s[k]>> \o ReplaceFrom(s, old, k + 1)

Replace(s, old) == ReplaceFrom(s, old, 1)

\* s.lstrip(), s.rstrip(), s.strip(): whitespace removed from the ends
LStrip(s) ==
    SubSeq(s, CHOOSE k \in 1..(Len(s) + 1) :
                  (k > Len(s) \/ s[k] \notin Whitespace) /\ \A j \in 1..(k - 1) : s[j] \in Whitespace,
           Len(s))
RStrip(s) ==
    SubSeq(s, 1, CHOOSE k \in 0..Len(s) :
                     (k = 0 \/ s[k] \notin Whitespace) /\ \A j \in (k + 1)..Len(s) : s[j] \in Whitespace)
Strip(s) == RStrip(LStrip(s))

\* s.split("-"): the parts between the hyphens
RECURSIVE Split(_)
Split(s) ==
    IF \A k \in 1..Len(s) : s[k] # "-" THEN <<s>>
    ELSE LET k == CHOOSE k \in 1..Len(s) : s[k] = "-" /\ \A j \in 1..(k - 1) : s[j] # "-"
         IN <<SubSeq(s, 1, k - 1)>> \o Split(SubSeq(s, k + 1, Len(s)))

----------------------------------------------------------------------------
(* Natural numbers of any size: the limbs in base 2^15, least significant *)
(* first, without a leading zero limb; <<>> is 0                          *)

Limb == 2 ^ 15

\* In with v for its argument: a value computed once under a name
With(v, In(_)) == In(v)

\* without its leading zero limbs
BNorm(a) ==
    SubSeq(a, 1, CHOOSE k \in 0..Len(a) :
                     (k = 0 \/ a[k] # 0) /\ \A j \in (k + 1)..Len(a) : a[j] = 0)

\* an integer of TLC, 0 <= n < 2^31
BFromInt(n) == BNorm(<<n % Limb, (n \div Limb) % Limb, n \div (Limb * Limb)>>)

\* -1, 0, 1 as a < b, a = b, a > b
BCmp(a, b) ==
    IF Len(a) < Len(b) THEN -1
    ELSE IF Len(a) > Len(b) THEN 1
    ELSE LET top == CHOOSE k \in 0..Len(a) :
                        (k = 0 \/ a[k] # b[k]) /\ \A j \in (k + 1)..Len(a) : a[j] = b[j]
         IN IF top = 0 THEN 0 ELSE IF a[top] < b[top] THEN -1 ELSE 1

BLimb(a, k) == IF k >= 1 /\ k <= Len(a) THEN a[k] ELSE 0

\* a + b; the carry into limb k: a limb below overflows, and those between it
\* and k pass the carry on
BAdd(a, b) ==
    IF a = <<>> THEN b
    ELSE IF b = <<>> THEN a
    ELSE BNorm([k \in 1..((IF Len(a) > Len(b) THEN Len(a) ELSE Len(b)) + 1) |->
                   (BLimb(a, k) + BLimb(b, k)
                    + (IF \E j \in 1..(k - 1) :
                              /\ BLimb(a, j) + BLimb(b, j) >= Limb
                              /\ \A l \in (j + 1)..(k - 1) : BLimb(a, l) + BLimb(b, l) = Limb - 1
                       THEN 1 ELSE 0)) % Limb])

\* a - b, for a >= b, with the borrow from limb k
BSub(a, b) ==
    IF b = <<>> THEN a
    ELSE BNorm([k \in 1..Len(a) |->
                   (a[k] - BLimb(b, k)
                    - (IF \E j \in 1..(k - 1) :
                              /\ a[j] < BLimb(b, j)
                              /\ \A l \in (j + 1)..(k - 1) : a[l] = BLimb(b, l)
                       THEN 1 ELSE 0)
                    + Limb) % Limb])

\* a * 2^(15 n)
BShiftLimbs(a, n) ==
    IF a = <<>> \/ n = 0 THEN a ELSE [j \in 1..(Len(a) + n) |-> IF j <= n THEN 0 ELSE a[j - n]]

\* a * f, for 0 <= f <= 2^15: the low halves of the products of the limbs, and
\* their high halves one limb up
BMulSmall(a, f) ==
    IF f = 0 \/ a = <<>> THEN <<>>
    ELSE IF f = 1 THEN a
    ELSE BAdd(BNorm([k \in 1..Len(a) |-> (a[k] * f) % Limb]),
              BShiftLimbs(BNorm([k \in 1..Len(a) |-> (a[k] * f) \div Limb]), 1))

\* a * (limbs lo..hi of b)
RECURSIVE BMulRange(_, _, _, _)
BMulRange(a, b, lo, hi) ==
    IF lo = hi THEN BMulSmall(a, b[lo])
    ELSE BAdd(BMulRange(a, b, lo, (lo + hi) \div 2),
              BShiftLimbs(BMulRange(a, b, ((lo + hi) \div 2) + 1, hi), ((lo + hi) \div 2) + 1 - lo))

BMul(a, b) ==
    IF a = <<>> \/ b = <<>> THEN <<>>
    ELSE IF Len(a) >= Len(b) THEN BMulRange(a, b, 1, Len(b))
    ELSE BMulRange(b, a, 1, Len(a))

\* a * 2^n
BShl(a, n) ==
    IF a = <<>> THEN <<>>
    ELSE BShiftLimbs(BNorm([k \in 1..(Len(a) + 1) |->
                               ((BLimb(a, k) * (2 ^ (n % 15))) % Limb)
                                   + (BLimb(a, k - 1) \div (2 ^ (15 - (n % 15))))]),
                     n \div 15)

\* a / 2^n, rounded down
BShr(a, n) ==
    IF n \div 15 >= Len(a) THEN <<>>
    ELSE BNorm([k \in 1..(Len(a) - (n \div 15)) |->
                   (a[k + (n \div 15)] \div (2 ^ (n % 15)))
                       + ((BLimb(a, k + (n \div 15) + 1) % (2 ^ (n % 15))) * (2 ^ (15 - (n % 15))))])

\* the number of bits of a: 0 for 0
BBitLen(a) ==
    IF a = <<>> THEN 0
    ELSE 15 * (Len(a) - 1) + (CHOOSE n \in 1..15 : 2 ^ (n - 1) <= a[Len(a)] /\ a[Len(a)] < 2 ^ n)

BIsOdd(a) == a # <<>> /\ a[1] % 2 = 1

\* one step of the long division by d, whose top limb is 2^14 or more: the limb
\* of weight 2^(15 j) of the quotient.  The estimate from the top limbs is the
\* limb or exceeds it by at most 2
BDivStep(st, d, j) ==
    With(BShiftLimbs(d, j), LAMBDA t :
    With(((BLimb(st.r, Len(d) + j + 1) * Limb) + BLimb(st.r, Len(d) + j)) \div d[Len(d)], LAMBDA top :
    With(IF top >= Limb THEN Limb - 1 ELSE top, LAMBDA est :
    With(IF BCmp(BMulSmall(t, est), st.r) <= 0 THEN est
         ELSE IF BCmp(BMulSmall(t, est - 1), st.r) <= 0 THEN est - 1
         ELSE est - 2, LAMBDA dig :
    [q |-> <<dig>> \o st.q, r |-> BSub(st.r, BMulSmall(t, dig))]))))

\* the steps for the limbs hi down to lo; the upper half is evaluated before the
\* lower half starts
RECURSIVE BDivLimbs(_, _, _, _)
BDivLimbs(st, d, hi, lo) ==
    IF hi < lo THEN st
    ELSE IF hi = lo THEN BDivStep(st, d, hi)
    ELSE CHOOSE res \in {BDivLimbs(upper, d, (hi + lo) \div 2, lo) :
                            upper \in {BDivLimbs(st, d, hi, ((hi + lo) \div 2) + 1)}} : TRUE

\* quotient and remainder of a by d, for d > 0: both shifted to bring the top limb
\* of d to 2^14 or more
BDivMod(a, d) ==
    With((15 - (BBitLen(d) % 15)) % 15, LAMBDA up :
    With(BShl(a, up), LAMBDA num :
    With(BShl(d, up), LAMBDA den :
    With(BDivLimbs([q |-> <<>>, r |-> num], den, Len(num) - Len(den), 0), LAMBDA res :
    [q |-> BNorm(res.q), r |-> BShr(res.r, up)]))))

RECURSIVE BPow10(_)
BPow10(k) ==
    IF k <= 4 THEN <<10 ^ k>>
    ELSE IF k <= 32 THEN BMulSmall(BPow10(k - 4), 10000)
    ELSE IF k % 2 = 0 THEN With(BPow10(k \div 2), LAMBDA root : BMul(root, root))
    ELSE BMulSmall(BPow10(k - 1), 10)

\* the number written by the decimal digits lo..hi of s
RECURSIVE BFromDigits(_, _, _)
BFromDigits(s, lo, hi) ==
    IF lo > hi THEN <<>>
    ELSE IF hi - lo < 4
    THEN BFromInt((DigitVal[s[lo]] * (10 ^ (hi - lo)))
                    + (IF hi - lo >= 1 THEN DigitVal[s[lo + 1]] * (10 ^ (hi - lo - 1)) ELSE 0)
                    + (IF hi - lo >= 2 THEN DigitVal[s[lo + 2]] * (10 ^ (hi - lo - 2)) ELSE 0)
                    + (IF hi - lo >= 3 THEN DigitVal[s[lo + 3]] ELSE 0))
    ELSE BAdd(BMul(BFromDigits(s, lo, (lo + hi) \div 2), BPow10(hi - ((lo + hi) \div 2))),
              BFromDigits(s, ((lo + hi) \div 2) + 1, hi))

\* a in w decimal digits, for a < 10^w
RECURSIVE BDigits(_, _)
BDigits(a, w) ==
    IF w <= 4
    THEN [k \in 1..w |-> DigitChars[(((IF a = <<>> THEN 0 ELSE a[1]) \div (10 ^ (w - k))) % 10) + 1]]
    ELSE CHOOSE digs \in {BDigits(split.q, w - (w \div 2)) \o BDigits(split.r, w \div 2) :
                             split \in {BDivMod(a, BPow10(w \div 2))}} : TRUE

\* the decimal digits of a
BToDigits(a) ==
    With(BDigits(a, ((BBitLen(a) * 30103) \div 100000) + 1), LAMBDA padded :
    SubSeq(padded,
           CHOOSE k \in 1..Len(padded) :
               (k = Len(padded) \/ padded[k] # "0") /\ \A j \in 1..(k - 1) : padded[j] = "0",
           Len(padded)))

----------------------------------------------------------------------------
(* Python numbers.  An int is IntV(neg, mag).  A float is the IEEE-754      *)
(* double: Fin(neg, m, e) for (-1)^neg * m * 2^e with 2^52 <= m < 2^53 and  *)
(* -1074 <= e <= 971, or m < 2^52 and e = -1074 (subnormal), or m = 0 and   *)
(* e = 0 (zero, signed); Inf(neg); NaN.                                       *)

IntV(neg, mag) == [cls |-> "int", neg |-> neg /\ mag # <<>>, m |-> mag, e |-> 0]
Fin(neg, m, e) == [cls |-> "fin", neg |-> neg, m |-> m, e |-> IF m = <<>> THEN 0 ELSE e]
Inf(neg) == [cls |-> "inf", neg |-> neg, m |-> <<>>, e |-> 0]
NaN == [cls |-> "nan", neg |-> FALSE, m |-> <<>>, e |-> 0]

IntZero == IntV(FALSE, <<>>)
FloatOfNat(n) ==
    With(BFromInt(n), LAMBDA mag : Fin(FALSE, BShl(mag, 53 - BBitLen(mag)), BBitLen(mag) - 53))

\* n > 0, n == 0 of an int or a float
IsPositive(x) == ~x.neg /\ (x.cls = "inf" \/ (x.cls \in {"int", "fin"} /\ x.m # <<>>))
IsZero(x) == x.cls \in {"int", "fin"} /\ x.m = <<>>

\* the double nearest to N / D (ties to the even significand), for N > 0 and
\* D > 0; over: the value is beyond the largest double
RoundRat(neg, N, D) ==
    \* 2^fl <= N / D < 2^(fl + 1)
    With(BBitLen(N) - BBitLen(D), LAMBDA s :
    With(IF s >= 0 THEN BCmp(N, BShl(D, s)) >= 0 ELSE BCmp(BShl(N, -s), D) >= 0, LAMBDA ge :
    With(IF ge THEN s ELSE s - 1, LAMBDA fl :
    \* the exponent of the last place, and N / D in units of it
    With(IF fl - 52 < -1074 THEN -1074 ELSE fl - 52, LAMBDA e0 :
    With(IF e0 > 0 THEN BShl(D, e0) ELSE D, LAMBDA den :
    With(BDivMod(IF e0 < 0 THEN BShl(N, -e0) ELSE N, den), LAMBDA qr :
    With(BCmp(BShl(qr.r, 1), den), LAMBDA c :
    With(IF c > 0 \/ (c = 0 /\ BIsOdd(qr.q)) THEN BAdd(qr.q, <<1>>) ELSE qr.q, LAMBDA q1 :
    \* rounding up may carry into a 54th bit
    With(BBitLen(q1) = 54, LAMBDA carry :
    IF (IF carry THEN e0 + 1 ELSE e0) > 971 THEN [over |-> TRUE, v |-> Inf(neg)]
    ELSE [over |-> FALSE,
          v |-> Fin(neg, IF carry THEN BShr(q1, 1) ELSE q1, IF carry THEN e0 + 1 ELSE e0)])))))))))

\* a + b of two floats
FAdd(a, b) ==
    IF a.cls = "nan" \/ b.cls = "nan" THEN NaN
    ELSE IF a.cls = "inf" THEN (IF b.cls = "inf" /\ a.neg # b.neg THEN NaN ELSE a)
    ELSE IF b.cls = "inf" THEN b
    ELSE IF a.m = <<>> /\ b.m = <<>> THEN Fin(a.neg /\ b.neg, <<>>, 0)
    ELSE IF a.m = <<>> THEN b
    ELSE IF b.m = <<>> THEN a
    ELSE With(IF a.e < b.e THEN a.e ELSE b.e, LAMBDA lowE :
         With(BShl(a.m, a.e - lowE), LAMBDA x :
         With(BShl(b.m, b.e - lowE), LAMBDA y :
         With(BCmp(x, y), LAMBDA c :
         With(IF a.neg = b.neg THEN a.neg ELSE IF c >= 0 THEN a.neg ELSE b.neg, LAMBDA sign :
         With(IF a.neg = b.neg THEN BAdd(x, y) ELSE IF c >= 0 THEN BSub(x, y) ELSE BSub(y, x), LAMBDA mag :
         IF mag = <<>> THEN Fin(FALSE, <<>>, 0)
         ELSE RoundRat(sign, IF lowE >= 0 THEN BShl(mag, lowE) ELSE mag,
                       IF lowE >= 0 THEN <<1>> ELSE BShl(<<1>>, -lowE)).v))))))

\* a / b of two floats, b finite and not zero
FDiv(a, b) ==
    IF a.cls = "nan" THEN NaN
    ELSE IF a.cls = "inf" THEN Inf(a.neg # b.neg)
    ELSE IF a.m = <<>> THEN Fin(a.neg # b.neg, <<>>, 0)
    ELSE RoundRat(a.neg # b.neg,
                  IF a.e >= b.e THEN BShl(a.m, a.e - b.e) ELSE a.m,
                  IF a.e >= b.e THEN b.m ELSE BShl(b.m, b.e - a.e)).v

NoError == "none"
ValueError == "ValueError"
OverflowError == "OverflowError"

\* float(n) of an int, as the division of a float by an int converts it
IntToFloat(n) ==
    IF n.m = <<>> THEN [exc |-> NoError, v |-> Fin(FALSE, <<>>, 0)]
    ELSE With(RoundRat(n.neg, n.m, <<1>>), LAMBDA r :
              [exc |-> IF r.over THEN OverflowError ELSE NoError, v |-> r.v])

\* int(x) of a float: truncation towards zero
IntOfFloat(x) ==
    IF x.cls = "inf" THEN [exc |-> OverflowError, v |-> IntZero]
    ELSE IF x.cls = "nan" THEN [exc |-> ValueError, v |-> IntZero]
    ELSE [exc |-> NoError,
          v |-> IntV(x.neg, IF x.e >= 0 THEN BShl(x.m, x.e) ELSE BShr(x.m, -x.e))]

\* (a + b) / 2.0
Average(a, b) == FDiv(FAdd(a, b), FloatOfNat(2))

\* tdp / n if n > 0 else 0
PerUnit(t, n) ==
    IF IsPositive(n)
    THEN With(IntToFloat(n), LAMBDA d :
              [exc |-> d.exc, v |-> IF d.exc = NoError THEN FDiv(t, d.v) ELSE IntZero])
    ELSE [exc |-> NoError, v |-> IntZero]

Unsigned(s) == IF s # <<>> /\ Head(s) \in {"+", "-"} THEN Tail(s) ELSE s
IsNegative(s) == s # <<>> /\ Head(s) = "-"

\* an underscore stands between two digits
UnderscoresOk(u) ==
    \A k \in 1..Len(u) :
        u[k] = "_" => k > 1 /\ k < Len(u) /\ u[k - 1] \in DecimalDigits /\ u[k + 1] \in DecimalDigits

WithoutUnderscores(u) == SelectSeq(u, LAMBDA c : c # "_")

\* where the run of digits that starts at position k ends
DigitRunEnd(d, k) ==
    CHOOSE j \in k..(Len(d) + 1) :
        (j > Len(d) \/ d[j] \notin DecimalDigits) /\ \A l \in k..(j - 1) : d[l] \in DecimalDigits

WithoutLeadingZeros(d) ==
    SubSeq(d, CHOOSE k \in 1..(Len(d) + 1) :
                  (k > Len(d) \/ DigitVal[d[k]] # 0) /\ \A j \in 1..(k - 1) : DigitVal[d[j]] = 0,
           Len(d))

\* the value of at most eight digits
RECURSIVE SmallVal(_, _, _)
SmallVal(d, k, acc) == IF k > Len(d) THEN acc ELSE SmallVal(d, k + 1, acc * 10 + DigitVal[d[k]])

\* the letters of inf, infinity and nan in lower case
Lower(s) ==
    With(("I" :> "i") @@ ("N" :> "n") @@ ("F" :> "f") @@ ("T" :> "t") @@ ("Y" :> "y") @@ ("A" :> "a"),
         LAMBDA lower : [k \in 1..Len(s) |-> IF s[k] \in DOMAIN lower THEN lower[s[k]] ELSE s[k]])

\* sys.get_int_max_str_digits(): int() of a longer string of digits is refused
MaxStrDigits == 4300

\* what int() and float() parse of a string: s without the whitespace at its
\* ends.  The separator controls U+001C..U+001F, whitespace for str.strip(), are
\* not skipped here: a string that begins or ends with one is no number.
Trim(s) ==
    With(Whitespace \ {"U+001C", "U+001D", "U+001E", "U+001F"}, LAMBDA skipped :
    SubSeq(s,
           CHOOSE k \in 1..(Len(s) + 1) :
               (k > Len(s) \/ s[k] \notin skipped) /\ \A j \in 1..(k - 1) : s[j] \in skipped,
           CHOOSE k \in 0..Len(s) :
               (k = 0 \/ s[k] \notin skipped) /\ \A j \in (k + 1)..Len(s) : s[j] \in skipped))

\* int(s) of a string: surrounding whitespace, an optional sign, decimal digits of
\* any script with single underscores between them
PyInt(s) ==
    With(Trim(s), LAMBDA t :
    With(Unsigned(t), LAMBDA u :
    With(WithoutUnderscores(u), LAMBDA d :
    IF /\ d # <<>>
       /\ UnderscoresOk(u)
       /\ \A k \in 1..Len(d) : d[k] \in DecimalDigits
       /\ Len(d) <= MaxStrDigits
    THEN [ok |-> TRUE, v |-> IntV(IsNegative(t), BFromDigits(d, 1, Len(d)))]
    ELSE [ok |-> FALSE, v |-> IntZero])))

\* the double nearest to digits * 10^x
Decimal(neg, digits, x) ==
    With(WithoutLeadingZeros(digits), LAMBDA sig :
    IF sig = <<>> THEN Fin(neg, <<>>, 0)
    ELSE IF Len(sig) - 1 + x >= 309 THEN Inf(neg)
    ELSE IF Len(sig) + x <= -324 THEN Fin(neg, <<>>, 0)
    ELSE With(BFromDigits(sig, 1, Len(sig)), LAMBDA mag :
         With(BPow10(IF x >= 0 THEN x ELSE -x), LAMBDA scale :
         RoundRat(neg, IF x >= 0 THEN BMul(mag, scale) ELSE mag,
                  IF x >= 0 THEN <<1>> ELSE scale).v)))

\* float(s) of a string: surrounding whitespace, an optional sign, then inf,
\* infinity or nan in any case, or digits with at most one point and an optional
\* exponent, single underscores between digits
PyFloat(s) ==
    With(Trim(s), LAMBDA t :
    With(Unsigned(t), LAMBDA u :
    With(Lower(u), LAMBDA word :
    IF word \in {<<"i", "n", "f">>, <<"i", "n", "f", "i", "n", "i", "t", "y">>}
    THEN [ok |-> TRUE, v |-> Inf(IsNegative(t))]
    ELSE IF word = <<"n", "a", "n">> THEN [ok |-> TRUE, v |-> NaN]
    ELSE
    With(WithoutUnderscores(u), LAMBDA d :
    \* the digits before the point end before i1, those after it before i2
    With(DigitRunEnd(d, 1), LAMBDA i1 :
    With(i1 <= Len(d) /\ d[i1] = ".", LAMBDA hasPoint :
    With(IF hasPoint THEN DigitRunEnd(d, i1 + 1) ELSE i1, LAMBDA i2 :
    With(IF hasPoint THEN SubSeq(d, i1 + 1, i2 - 1) ELSE <<>>, LAMBDA frac :
    \* the digits of the exponent start at i3 and end before i4
    With(i2 <= Len(d) /\ d[i2] \in {"e", "E"}, LAMBDA hasExp :
    With(hasExp /\ i2 + 1 <= Len(d) /\ d[i2 + 1] \in {"+", "-"}, LAMBDA hasSign :
    With(IF hasSign THEN i2 + 2 ELSE IF hasExp THEN i2 + 1 ELSE i2, LAMBDA i3 :
    With(IF hasExp THEN DigitRunEnd(d, i3) ELSE i2, LAMBDA i4 :
    With(WithoutLeadingZeros(SubSeq(d, i3, i4 - 1)), LAMBDA expd :
    With(IF Len(expd) > 8 THEN 10 ^ 8 ELSE SmallVal(expd, 1, 0), LAMBDA E :
    IF /\ UnderscoresOk(u)
       /\ (i1 - 1) + Len(frac) > 0
       /\ hasExp => i4 > i3
       /\ i4 = Len(d) + 1
    THEN [ok |-> TRUE,
          v |-> Decimal(IsNegative(t), SubSeq(d, 1, i1 - 1) \o frac,
                        (IF hasSign /\ d[i2 + 1] = "-" THEN -E ELSE E) - Len(frac))]
    ELSE [ok |-> FALSE, v |-> NaN]))))))))))))))

----------------------------------------------------------------------------
(* repr() of a float: the shortest decimal that reads back as the same      *)
(* double, the nearest one of that length                                    *)

Zeros(n) == [k \in 1..n |-> "0"]

\* the digits without the zeros at their end, the first digit kept
WithoutTrailingZeros(d) ==
    SubSeq(d, 1, CHOOSE k \in 1..Len(d) :
                     (k = 1 \/ d[k] # "0") /\ \A j \in (k + 1)..Len(d) : d[j] = "0")

\* m * 2^e and the ends lo, hi of the reals that round to it, as integers in
\* units of 2^(e-2) * 10^(k-17) or a part of it, with W the number of them in
\* 10^(k-17) and its powers of ten and two
Scaled(m, e, k) ==
    With(BShl(BPow10(IF 17 - k > 0 THEN 17 - k ELSE 0), IF e - 2 > 0 THEN e - 2 ELSE 0), LAMBDA f :
    With(BMul(BShl(m, 2), f), LAMBDA mid :
       [x |-> mid,
        \* below a power of two the doubles lie twice as close
        lo |-> BSub(mid, IF BBitLen(m) = 53 /\ BBitLen(BSub(m, <<1>>)) = 52 /\ e > -1074
                         THEN f ELSE BShl(f, 1)),
        hi |-> BAdd(mid, BShl(f, 1)),
        W |-> BShl(BPow10(IF k - 17 > 0 THEN k - 17 ELSE 0), IF 2 - e > 0 THEN 2 - e ELSE 0),
        tens |-> IF k - 17 > 0 THEN k - 17 ELSE 0,
        twos |-> IF 2 - e > 0 THEN 2 - e ELSE 0,
        even |-> ~BIsOdd(m),
        k |-> k]))

\* the scaling by the k with 10^(k-1) <= m * 2^e < 10^k, found from the estimate k
RECURSIVE DecimalPoint(_, _, _)
DecimalPoint(m, e, k) ==
    CHOOSE res \in
        {IF BCmp(sc.x, BShl(BPow10(sc.tens + 17), sc.twos)) >= 0 THEN DecimalPoint(m, e, k + 1)
         ELSE IF BCmp(sc.x, BShl(BPow10(sc.tens + 16), sc.twos)) < 0 THEN DecimalPoint(m, e, k - 1)
         ELSE sc : sc \in {Scaled(m, e, k)}} : TRUE

\* the decimal of p digits nearest to x: whether one lies within the interval,
\* and its digits as a number
Nearest(s, d17, p) ==
    \* the decimals of p digits on either side of x: dlo and dlo + 1, in units t
    With(BShl(BPow10(s.tens + 17 - p), s.twos), LAMBDA t :
    With(BDivMod(d17, BPow10(17 - p)).q, LAMBDA dlo :
    With(BMul(dlo, t), LAMBDA clo :
    With(BAdd(clo, t), LAMBDA chi :
    With(BCmp(clo, s.lo) > 0 \/ (s.even /\ clo = s.lo), LAMBDA okLo :
    With(BCmp(chi, s.hi) < 0 \/ (s.even /\ chi = s.hi), LAMBDA okHi :
    With(BCmp(BSub(s.x, clo), BSub(chi, s.x)), LAMBDA c :
    [ok |-> okLo \/ okHi,
     d |-> IF okLo /\ (~okHi \/ c < 0 \/ (c = 0 /\ ~BIsOdd(dlo))) THEN dlo
           ELSE BAdd(dlo, <<1>>)])))))))

\* the least number of digits from lo to hi with a decimal within the interval,
\* one of hi digits being there; a decimal of p digits is one of p + 1 digits
RECURSIVE Shortest(_, _, _, _)
Shortest(s, d17, lo, hi) ==
    IF lo = hi THEN [p |-> lo, d |-> Nearest(s, d17, lo).d]
    ELSE IF Nearest(s, d17, (lo + hi) \div 2).ok THEN Shortest(s, d17, lo, (lo + hi) \div 2)
    ELSE Shortest(s, d17, ((lo + hi) \div 2) + 1, hi)

\* repr(x)
Repr(x) ==
    IF x.cls = "nan" THEN <<"n", "a", "n">>
    ELSE IF x.cls = "inf" THEN (IF x.neg THEN <<"-">> ELSE <<>>) \o <<"i", "n", "f">>
    ELSE IF x.m = <<>> THEN (IF x.neg THEN <<"-">> ELSE <<>>) \o <<"0", ".", "0">>
    ELSE
    With(DecimalPoint(x.m, x.e, ((((BBitLen(x.m) + x.e) - 1) * 30103) \div 100000) + 1), LAMBDA sc :
    With(Shortest(sc, BDivMod(sc.x, sc.W).q, 1, 17), LAMBDA sh :
    With(WithoutTrailingZeros(BToDigits(sh.d)), LAMBDA digs :
    \* a carry into a new leading digit moves the point
    With(IF sh.d = BPow10(sh.p) THEN sc.k + 1 ELSE sc.k, LAMBDA decpt :
    (IF x.neg THEN <<"-">> ELSE <<>>) \o
    \* with an exponent when the point lies far from the digits
    (   IF decpt <= -4 \/ decpt > 16
        THEN <<digs[1]>> \o (IF Len(digs) > 1 THEN <<".">> \o SubSeq(digs, 2, Len(digs)) ELSE <<>>)
             \o <<"e", IF decpt < 1 THEN "-" ELSE "+">>
             \o (IF decpt - 1 < 10 /\ 1 - decpt < 10 THEN <<"0">> ELSE <<>>)
             \o BToDigits(BFromInt(IF decpt < 1 THEN 1 - decpt ELSE decpt - 1))
        ELSE IF decpt <= 0 THEN <<"0", ".">> \o Zeros(-decpt) \o digs
        ELSE IF decpt >= Len(digs) THEN digs \o Zeros(decpt - Len(digs)) \o <<".", "0">>
        ELSE SubSeq(digs, 1, decpt) \o <<".">> \o SubSeq(digs, decpt + 1, Len(digs)))))))

\* str(x), as an f-string formats an int or a float
Str(x) ==
    IF x.cls = "int" THEN (IF x.neg THEN <<"-">> ELSE <<>>) \o BToDigits(x.m) ELSE Repr(x)

----------------------------------------------------------------------------
(* merge.py: the shared dict and the records *)

Sources == <<"amd", "altra", "one", "intel", "ga">>

sAMD == <<"A", "M", "D">>
sIntel == <<"I", "n", "t", "e", "l">>
sAmpere == <<"A", "m", "p", "e", "r", "e">>
sAmpereAltra == <<"A", "m", "p", "e", "r", "e", "A", "l", "t", "r", "a", " ">>

AmdUrl == <<"https://www.amd.com/en/products/specifications/processors.html">>
AltraUrl == <<"https://amperecomputing.com/briefs/ampere-altra-family-product-brief">>
OneUrl == <<"https://amperecomputing.com/briefs/ampereone-family-product-brief">>
IntelUrl == <<"https://www.intel.com/content/www/us/en/products/details/processors.html">>

\* the dict `processor` built by every parser
Processor(manufacturer, model, t, n_cores, n_threads, tdp_per_core, tdp_per_thread, source) ==
    [tdp |-> t, manufacturer |-> manufacturer, model |-> model,
     n_cores |-> n_cores, n_threads |-> n_threads,
     tdp_per_core |-> tdp_per_core,
     tdp_per_thread |-> tdp_per_thread,
     source |-> source]

NoProcessor == Processor(<<>>, <<>>, IntZero, IntZero, IntZero, IntZero, IntZero, <<>>)

\* the two lines `tdp_per_core = ...` and `tdp_per_thread = ...`: the values, or
\* the exception of the first division that raises one
PerUnits(t, n_cores, n_threads) ==
    With(PerUnit(t, n_cores), LAMBDA c :
    With(PerUnit(t, n_threads), LAMBDA th :
    [exc |-> IF c.exc # NoError THEN c.exc ELSE th.exc,
     tdp_per_core |-> c.v, tdp_per_thread |-> th.v]))

HasKey(d, key) == \E k \in 1..Len(d) : d[k].model = key
Lookup(d, key) == d[CHOOSE k \in 1..Len(d) : d[k].model = key]

\* processors.setdefault(processor_model, processor): the first writer wins
DictSetKeepFirst(d, rec) == IF HasKey(d, rec.model) THEN d ELSE Append(d, rec)

\* processors[processor_model] = processor: a new key is appended, the value of an
\* existing key is replaced where it stands
DictSet(d, rec) ==
    IF HasKey(d, rec.model)
    THEN [k \in 1..Len(d) |-> IF d[k].model = rec.model THEN rec ELSE d[k]]
    ELSE Append(d, rec)

\* what one pass of a parser's loop body does
Insert(rec) == [kind |-> "insert", rec |-> rec, exc |-> NoError]
Continue == [kind |-> "continue", rec |-> NoProcessor, exc |-> NoError]
\* an exception the loop body catches and prints
Caught(exc) == [kind |-> "caught", rec |-> NoProcessor, exc |-> exc]
\* an exception nothing catches
Raise(exc) == [kind |-> "raise", rec |-> NoProcessor, exc |-> exc]

AmdHeaders == {"Name", "Default TDP", "# of CPU Cores", "# of Threads"}
AltraHeaders == {"PRODUCT NAME", "CORES", "USAGE POWER (W)"}
OneHeaders == {"Processor Model", "Core Count", "Usage Power*"}
GreenHeaders == {"model", "TDP", "n_cores", "TDP_per_core", "source", "manufacturer", "threads"}
IntelKeys == {"Product Collection", "Total Cores", "Total Threads", "TDP", "Processor Base Power"}

\* float() of the first two parts of a range "a-b"
RangeEnds(tdp_splitted) ==
    With(PyFloat(tdp_splitted[1]), LAMBDA a :
    With(PyFloat(tdp_splitted[2]), LAMBDA b :
    [ok |-> a.ok /\ b.ok, a |-> a.v, b |-> b.v]))

\* lines 29-33, the TDP text of an AMD row: a range "a-b" is averaged
AmdTdp(t) ==
    IF Contains(t, <<"-">>)
    THEN With(RangeEnds(Split(t)), LAMBDA ends :
              IF ends.ok THEN [ok |-> TRUE, v |-> Average(ends.a, ends.b)]
              ELSE [ok |-> FALSE, v |-> NaN])
    ELSE PyFloat(t)

\* leaving the loop body by exception exc: `except ValueError` prints it and goes
\* on with the next row, any other exception leaves the parser
Except(exc) == IF exc = ValueError THEN Caught(exc) ELSE Raise(exc)

\* the lines from `tdp_per_core = ...` to `processors[processor_model] = processor`
Store(manufacturer, model, t, n_cores, n_threads, source) ==
    With(PerUnits(t, n_cores, n_threads), LAMBDA per :
    IF per.exc # NoError THEN Except(per.exc)
    ELSE Insert(Processor(manufacturer, model, t, n_cores, n_threads,
                          per.tdp_per_core, per.tdp_per_thread, source)))

\* read_and_process_amd: the body of `for row in csv_reader`
AmdRow(row) ==
    IF \E h \in AmdHeaders : row[h] = NoneCell THEN Raise("AttributeError")
    ELSE
    With(Strip(Replace(Replace(row["Name"], sAMD), <<TmSign>>)), LAMBDA processor_model :
    With(Replace(Replace(Strip(row["Default TDP"]), <<"W">>), <<"+">>), LAMBDA t :
    With(Strip(row["# of CPU Cores"]), LAMBDA n_cores :
    With(Strip(row["# of Threads"]), LAMBDA n_threads :
    IF n_cores = <<>> \/ n_threads = <<>> \/ t = <<>> THEN Continue
    ELSE
    With(AmdTdp(t), LAMBDA x :
    With(PyInt(n_cores), LAMBDA c :
    With(PyInt(n_threads), LAMBDA th :
    IF ~x.ok \/ ~c.ok \/ ~th.ok THEN Caught(ValueError)
    ELSE Store(sAMD, processor_model, x.v, c.v, th.v, AmdUrl))))))))

\* int(float(s)): a text that is no number and nan are ValueErrors, an infinity
\* is an OverflowError
IntOfFloatOf(s) ==
    With(PyFloat(s), LAMBDA x :
    IF x.ok THEN IntOfFloat(x.v) ELSE [exc |-> ValueError, v |-> IntZero])

\* read_and_process_ampere_altra: the body of `for row in csv_reader`, statement
\* by statement: the first exception raised decides
AmpereAltraRow(row) ==
    With(PyFloat(Replace(Strip(row["USAGE POWER (W)"]), <<"W">>)), LAMBDA t :
    With(IntOfFloatOf(Strip(row["CORES"])), LAMBDA n_cores :
    IF row["USAGE POWER (W)"] = NoneCell THEN Raise("AttributeError")
    ELSE IF ~t.ok THEN Caught(ValueError)
    ELSE IF row["CORES"] = NoneCell THEN Raise("AttributeError")
    ELSE IF n_cores.exc # NoError THEN Except(n_cores.exc)
    ELSE IF row["PRODUCT NAME"] = NoneCell THEN Raise("AttributeError")
    ELSE Store(sAmpere, sAmpereAltra \o Strip(row["PRODUCT NAME"]), t.v, n_cores.v, n_cores.v,
               AltraUrl)))

\* read_and_process_ampere_one: the body of `for row in csv_reader`
AmpereOneRow(row) ==
    With(PyFloat(Replace(Strip(row["Usage Power*"]), <<"W">>)), LAMBDA t :
    With(PyInt(Strip(row["Core Count"])), LAMBDA c :
    IF row["Processor Model"] = NoneCell \/ row["Usage Power*"] = NoneCell
    THEN Raise("AttributeError")
    ELSE IF ~t.ok THEN Caught(ValueError)
    ELSE IF row["Core Count"] = NoneCell THEN Raise("AttributeError")
    ELSE IF ~c.ok THEN Caught(ValueError)
    ELSE Store(sAmpere, Strip(Replace(row["Processor Model"], <<RegSign>>)), t.v, c.v, c.v,
               OneUrl)))

\* read_and_process_green_algorithms: the body of `for row in csv_reader`; the
\* source is stripped last, when the dict is built
GreenRow(row) ==
    With(PyFloat(Replace(Strip(row["TDP"]), <<"W">>)), LAMBDA t :
    With(IntOfFloatOf(Strip(row["n_cores"])), LAMBDA n_cores :
    With(PyInt(Strip(row["threads"])), LAMBDA th :
    IF row["model"] = NoneCell \/ row["manufacturer"] = NoneCell \/ row["TDP"] = NoneCell
    THEN Raise("AttributeError")
    ELSE IF ~t.ok THEN Caught(ValueError)
    ELSE IF row["n_cores"] = NoneCell THEN Raise("AttributeError")
    ELSE IF n_cores.exc # NoError THEN Except(n_cores.exc)
    ELSE IF row["threads"] = NoneCell THEN Raise("AttributeError")
    ELSE IF ~th.ok THEN Caught(ValueError)
    ELSE With(Store(Strip(row["manufacturer"]), Strip(row["model"]), t.v, n_cores.v, th.v,
                    Strip(row["source"])), LAMBDA stored :
         IF stored.kind = "insert" /\ row["source"] = NoneCell THEN Raise("AttributeError")
         ELSE stored))))

----------------------------------------------------------------------------
(* merge.py: read_and_process_intel *)

\* the local variable tdp: not yet assigned, a string, or a float
Unbound == [kind |-> "unbound", s |-> <<>>, v |-> NaN]
TdpStr(s) == [kind |-> "str", s |-> s, v |-> NaN]
TdpFloat(v) == [kind |-> "float", s |-> <<>>, v |-> v]

\* the names of a sequence, each once, in the order of first occurrence
UniqueInOrder(names) ==
    LET keep == {k \in 1..Len(names) : \A j \in 1..(k - 1) : names[j] # names[k]}
        F[k \in 0..Len(names)] ==
            IF k = 0 THEN <<>> ELSE IF k \in keep THEN Append(F[k - 1], names[k]) ELSE F[k - 1]
    IN F[Len(names)]

\* the places <<r, k>> of a family file where attribute `key` of processor `name` is set
Places(f, name, key) ==
    {p \in (1..Len(f.attrs)) \X (1..Len(f.names)) :
        /\ f.attrs[p[1]].key = key
        /\ p[2] <= Len(f.attrs[p[1]].vals)
        /\ f.names[p[2]] = name}

\* the last assignment processor_data[name][key] = value wins
LastPlace(ps) ==
    CHOOSE p \in ps : \A q \in ps : q[1] < p[1] \/ (q[1] = p[1] /\ q[2] <= p[2])

\* processor_data[name] once the file is read
Details(f, name) ==
    [key \in {k \in IntelKeys : Places(f, name, k) # {}} \cup {"Processor Name"} |->
        IF key = "Processor Name" THEN name
        ELSE LET p == LastPlace(Places(f, name, key)) IN f.attrs[p[1]].vals[p[2]]]

\* the `with open(file_path)` block: processor_data of one family file, or the
\* exception that reading it raises
ReadIntelFile(f) ==
    IF f.truncated THEN [exc |-> "StopIteration", data |-> <<>>]
    ELSE IF \E r \in 1..Len(f.attrs) :
                f.attrs[r].key \in IntelKeys /\ Len(f.attrs[r].vals) > Len(f.names)
    THEN [exc |-> "IndexError", data |-> <<>>]
    ELSE LET names == UniqueInOrder(f.names)
         IN [exc |-> NoError,
             data |-> [k \in 1..Len(names) |->
                          [name |-> names[k], details |-> Details(f, names[k])]]]

\* the value tdp takes at lines 181-184
IntelTdp(details, t) ==
    IF "TDP" \in DOMAIN details
    THEN TdpStr(Replace(Strip(details["TDP"]), <<"W">>))
    ELSE IF "Processor Base Power" \in DOMAIN details
    THEN TdpStr(Replace(Strip(details["Processor Base Power"]), <<"W">>))
    ELSE t

\* float(tdp) of a string or of a float
IntelFloat(t) == IF t.kind = "float" THEN [ok |-> TRUE, v |-> t.v] ELSE PyFloat(t.s)

\* the body of `for processor_name, details in processor_data.items()`, given the
\* value t of tdp on entry: what it does, and the value of tdp on exit
IntelColumn(processor_name, details, t) ==
    With(IntelTdp(details, t), LAMBDA t1 :
    IF t1.kind = "unbound" THEN [o |-> Raise("UnboundLocalError"), tdp |-> t1]
    ELSE IF t1 = TdpStr(<<>>) THEN [o |-> Continue, tdp |-> t1]
    ELSE
    With(IntelFloat(t1), LAMBDA x :
    IF ~x.ok THEN [o |-> Raise(ValueError), tdp |-> t1]
    ELSE
    [tdp |-> TdpFloat(x.v),
     o |-> IF "Total Cores" \notin DOMAIN details THEN Raise("KeyError")
           ELSE With(PyInt(Strip(details["Total Cores"])), LAMBDA c :
                IF ~c.ok THEN Raise(ValueError)
                ELSE IF "Total Threads" \notin DOMAIN details THEN Raise("KeyError")
                ELSE With(PyInt(Strip(details["Total Threads"])), LAMBDA th :
                     IF ~th.ok THEN Raise(ValueError)
                     ELSE With(Store(sIntel,
                                     Strip(Replace(Replace(processor_name, sIntel), <<RegSign>>)),
                                     x.v, c.v, th.v, IntelUrl), LAMBDA stored :
                          \* no try statement in this parser
                          IF stored.kind = "caught" THEN Raise(stored.exc) ELSE stored)))]))

----------------------------------------------------------------------------
(* merge.py: the script *)

NotWritten == [written |-> FALSE, header |-> <<>>, lines |-> <<>>]

Printed(msg, src, row) == [msg |-> msg, src |-> src, row |-> row]

\* the f-string of line 262, without its leading newline
Line(processor) ==
    processor.model \o <<",">> \o Str(processor.tdp) \o <<",">> \o Str(processor.n_cores)
        \o <<",">> \o Str(processor.tdp_per_core) \o <<",">> \o processor.source

\* lines 258-262: the two header lines, then one line per value of the dict
OutputOf(d) ==
    [written |-> TRUE,
     header |-> <<"index,in Watt,,,", "model,TDP,n_cores,TDP_per_core,source">>,
     lines |-> [k \in 1..Len(d) |-> Line(d[k])]]

\* a parser up to its loop: open the file, check the headers
OpenCsv(src, headers, rowPc, nextPc) ==
    LET f == files[src]
    IN /\ pc = src
       /\ IF f.status = "missing"
          THEN /\ log' = Append(log, Printed("File not found", src, 0))
               /\ pc' = nextPc
               /\ err' = err
          ELSE IF f.status = "empty"
          THEN /\ log' = log
               /\ pc' = "crashed"
               /\ err' = "TypeError"
          ELSE IF ~(headers \subseteq f.fieldnames)
          THEN /\ log' = Append(log, Printed("Error: Missing required header", src, 0))
               /\ pc' = nextPc
               /\ err' = err
          ELSE /\ log' = log
               /\ pc' = IF f.rows = <<>> THEN nextPc ELSE rowPc
               /\ err' = err
       /\ i' = 1
       /\ UNCHANGED <<files, fileIdx, processor_data, tdp, processors, out, df, updated>>

\* one pass of a parser's `for row in csv_reader`
RowDone(src, o, rowPc, nextPc) ==
    LET rows == files[src].rows
    IN /\ pc = rowPc
       /\ processors' = IF o.kind = "insert" THEN DictSet(processors, o.rec) ELSE processors
       /\ log' = IF o.kind = "caught"
                 THEN Append(log, Printed("Error processing row", src, i))
                 ELSE log
       /\ IF o.kind = "raise"
          THEN pc' = "crashed" /\ err' = o.exc /\ i' = i
          ELSE /\ pc' = IF i = Len(rows) THEN nextPc ELSE rowPc
               /\ i' = IF i = Len(rows) THEN 1 ELSE i + 1
               /\ err' = err
       /\ UNCHANGED <<files, fileIdx, processor_data, tdp, out, df, updated>>

RowStep(src, Body(_), rowPc, nextPc) == RowDone(src, Body(files[src].rows[i]), rowPc, nextPc)

read_and_process_amd == OpenCsv("amd", AmdHeaders, "amd_rows", "altra")
read_and_process_amd_row == RowStep("amd", AmdRow, "amd_rows", "altra")

read_and_process_ampere_altra == OpenCsv("altra", AltraHeaders, "altra_rows", "one")
read_and_process_ampere_altra_row == RowStep("altra", AmpereAltraRow, "altra_rows", "one")

read_and_process_ampere_one == OpenCsv("one", OneHeaders, "one_rows", "intel")
read_and_process_ampere_one_row == RowStep("one", AmpereOneRow, "one_rows", "intel")

\* os.listdir(root_dir)
read_and_process_intel ==
    /\ pc = "intel"
    /\ IF files.intel.status = "missing"
       THEN pc' = "crashed" /\ err' = "FileNotFoundError"
       ELSE /\ pc' = IF files.intel.list = <<>> THEN "ga" ELSE "intel_file"
            /\ err' = err
    /\ fileIdx' = 1
    /\ UNCHANGED <<files, i, processor_data, tdp, processors, log, out, df, updated>>

\* where the Intel parser goes after the last column of file number `k`
AfterIntelFile(k) == IF k = Len(files.intel.list) THEN "ga" ELSE "intel_file"

\* one pass of `for file in os.listdir(root_dir)` up to the loop over the columns
read_and_process_intel_file ==
    LET r == ReadIntelFile(files.intel.list[fileIdx])
    IN /\ pc = "intel_file"
       /\ IF r.exc # NoError
          THEN /\ pc' = "crashed" /\ err' = r.exc
               /\ UNCHANGED <<fileIdx, processor_data, tdp>>
          ELSE IF r.data = <<>>
          THEN /\ pc' = AfterIntelFile(fileIdx) /\ err' = err
               /\ fileIdx' = IF fileIdx = Len(files.intel.list) THEN 1 ELSE fileIdx + 1
               /\ tdp' = IF fileIdx = Len(files.intel.list) THEN Unbound ELSE tdp
               /\ UNCHANGED processor_data
          ELSE /\ pc' = "intel_cols" /\ err' = err
               /\ processor_data' = r.data
               /\ UNCHANGED <<fileIdx, tdp>>
       /\ i' = 1
       /\ UNCHANGED <<files, processors, log, out, df, updated>>

\* one pass of `for processor_name, details in processor_data.items()`, r what
\* the body of the loop does
IntelColumnStep(r) ==
    LET lastCol == i = Len(processor_data)
        lastFile == fileIdx = Len(files.intel.list)
    IN /\ pc = "intel_cols"
       /\ processors' = IF r.o.kind = "insert" THEN DictSet(processors, r.o.rec) ELSE processors
       /\ IF r.o.kind = "raise"
          THEN /\ pc' = "crashed" /\ err' = r.o.exc
               /\ tdp' = r.tdp
               /\ UNCHANGED <<i, fileIdx, processor_data>>
          ELSE /\ err' = err
               /\ pc' = IF lastCol THEN AfterIntelFile(fileIdx) ELSE "intel_cols"
               /\ i' = IF lastCol THEN 1 ELSE i + 1
               /\ processor_data' = IF lastCol THEN <<>> ELSE processor_data
               /\ fileIdx' = IF lastCol THEN (IF lastFile THEN 1 ELSE fileIdx + 1) ELSE fileIdx
               /\ tdp' = IF lastCol /\ lastFile THEN Unbound ELSE r.tdp
       /\ UNCHANGED <<files, log, out, df, updated>>

ColumnStep(Body(_, _, _)) ==
    IntelColumnStep(Body(processor_data[i].name, processor_data[i].details, tdp))

read_and_process_intel_column == ColumnStep(IntelColumn)

read_and_process_green_algorithms == OpenCsv("ga", GreenHeaders, "ga_rows", "write")
read_and_process_green_algorithms_row == RowStep("ga", GreenRow, "ga_rows", "write")

\* lines 258-262
write_output ==
    /\ pc = "write"
    /\ out' = OutputOf(processors)
    /\ pc' = "done"
    /\ UNCHANGED <<files, i, fileIdx, processor_data, tdp, processors, log, err, df, updated>>

----------------------------------------------------------------------------
(* The inputs of merge.py *)

\* a row as csv.DictReader yields it
AmdCsvRow(name, t, cores, threads) ==
    ("Name" :> name) @@ ("Default TDP" :> t) @@ ("# of CPU Cores" :> cores) @@
    ("# of Threads" :> threads)
AltraCsvRow(name, cores, power) ==
    ("PRODUCT NAME" :> name) @@ ("CORES" :> cores) @@ ("USAGE POWER (W)" :> power)
OneCsvRow(name, cores, power) ==
    ("Processor Model" :> name) @@ ("Core Count" :> cores) @@ ("Usage Power*" :> power)
GreenUrl == <<"http://calculator.green-algorithms.org/">>
GreenCsvRow(model, t, cores, manufacturer, threads) ==
    ("model" :> model) @@ ("TDP" :> t) @@ ("n_cores" :> cores) @@ ("TDP_per_core" :> <<>>) @@
    ("source" :> (IF threads = NoneCell THEN NoneCell ELSE <<" ">> \o GreenUrl)) @@
    ("manufacturer" :> manufacturer) @@ ("threads" :> threads)

\* a family file of the Intel directory: the processor names of its third line and
\* its labelled attribute rows; truncated: it has fewer than three lines
Attr(key, vals) == [key |-> key, vals |-> vals]
IntelFile(truncated, names, attrs) == [truncated |-> truncated, names |-> names, attrs |-> attrs]

AmdSamples ==
    { \* a plain row
     AmdCsvRow(<<"A", "M", "D", " ", "R", "y", "z", "e", "n", " ", "5", " ", "3", "6", "0", "0">>, <<"6", "5", "W">>, <<"6">>, <<"1", "2">>),
     \* a range
     AmdCsvRow(<<"A", "M", "D", " ", "Q", TmSign>>, <<"1", "5", "-", "2", "5", "W">>, <<"4">>, <<"8">>),
     \* a TDP that is no number
     AmdCsvRow(<<"A", "M", "D", " ", "Q">>, <<"x">>, <<"4">>, <<"8">>),
     \* no cores, no threads; a registered sign
     AmdCsvRow(<<"Q", RegSign>>, <<"3", "5", "W">>, <<"0">>, <<"0">>),
     \* a negative count; AMD left after AMD is removed
     AmdCsvRow(<<"A", "A", "M", "D", "M", "D">>, <<"7", ".", "5", "W">>, <<"-", "4">>, <<"2">>),
     \* an empty cell
     AmdCsvRow(<<"A", "M", "D", " ", "Q">>, <<"6", "5", "W">>, <<>>, <<"8">>),
     \* a row that ends after its second cell
     AmdCsvRow(<<"A", "M", "D", " ", "Q">>, <<"6", "5", "W">>, NoneCell, NoneCell),
     \* a range of two decimal fractions; a tab, an underscore, a digit of another script
     AmdCsvRow(<<"A", "M", "D", " ", "M">>, <<"0", ".", "1", "-", "0", ".", "2", "W">>, <<"\t", "1", "_", "0">>, <<"U+0663">>),
     \* an exponent; more cores than a float can hold
     AmdCsvRow(<<"A", "M", "D", " ", "M">>, <<"1", "e", "2", "W">>, <<"1">> \o Zeros(309), <<"2">>)}

AltraSamples ==
    { \* a plain row
     AltraCsvRow(<<"Q">>, <<"8", "0">>, <<"1", "5", "0">>),
     \* a count with a decimal point
     AltraCsvRow(<<"Q">>, <<"3", "2", ".", "0">>, <<"4", "0", "W">>),
     \* a count that is no number
     AltraCsvRow(<<"M">>, <<"x">>, <<"1", "0", "0">>),
     \* a range
     AltraCsvRow(<<"M">>, <<"6", "4">>, <<"1", "0", "0", "-", "2", "0", "0">>),
     \* no cores; a trademark sign
     AltraCsvRow(<<"M", TmSign>>, <<"0">>, <<"2", "5", "0">>),
     \* a row that ends after its first cell
     AltraCsvRow(<<"M">>, NoneCell, NoneCell),
     \* an infinite count
     AltraCsvRow(<<"M">>, <<"i", "n", "f">>, <<"1", "0", "0">>),
     \* a count that is not a number
     AltraCsvRow(<<"M">>, <<"n", "a", "n">>, <<"1", "0", "0">>),
     \* an exponent within whitespace
     AltraCsvRow(<<"M">>, <<" ", "1", "e", "2", "\n">>, <<"1", ".", "1">>)}

OneSamples ==
    { \* a plain row
     OneCsvRow(<<"Q", RegSign>>, <<"1", "9", "2">>, <<"4", "0", "0", "W">>),
     \* a range
     OneCsvRow(<<"A", "M", "D", " ", "Q">>, <<"4">>, <<"1", "0", "0", "-", "2", "0", "0">>),
     \* a count with a decimal point
     OneCsvRow(<<"M">>, <<"4", ".", "0">>, <<"1", "0", "0">>),
     \* no cores
     OneCsvRow(<<"I", "n", "t", "e", "l", " ", "Q">>, <<"0">>, <<"5", "0">>),
     \* a negative count
     OneCsvRow(<<"M">>, <<"-", "8">>, <<"7", ".", "5">>),
     \* a row that ends after its first cell
     OneCsvRow(<<"M">>, NoneCell, NoneCell),
     \* a quotient that is rounded
     OneCsvRow(<<"M">>, <<"7">>, <<"1", ".", "1">>)}

GreenSamples ==
    { \* a plain row
     GreenCsvRow(<<"Q">>, <<"6", "5">>, <<"6">>, <<"A", "M", "D">>, <<"1", "2">>),
     \* a range
     GreenCsvRow(<<"A", "m", "p", "e", "r", "e", "A", "l", "t", "r", "a", " ", "Q">>, <<"1", "0", "-", "2", "0">>, <<"4">>, <<"A", "m", "p", "e", "r", "e">>, <<"4">>),
     \* a count with a decimal point
     GreenCsvRow(<<"I", "n", "t", "e", "l", " ", "Q", TmSign>>, <<"9", "5", ".", "5">>, <<"8", ".", "0">>, <<"I", "n", "t", "e", "l">>, <<"1", "6">>),
     \* threads that are no number
     GreenCsvRow(<<"Q">>, <<"6", "5">>, <<"6">>, <<"A", "M", "D">>, <<"x">>),
     \* a negative count, no threads
     GreenCsvRow(<<"R", "y", "z", "e", "n", " ", "5", " ", "3", "6", "0", "0">>, <<"6", "5">>, <<"-", "2">>, <<"A", "M", "D">>, <<"0">>),
     \* a unit
     GreenCsvRow(<<"A", "m", "p", "e", "r", "e", "A", "l", "t", "r", "a", " ", "Q">>, <<"2", "5", "0", "W">>, <<"8", "0">>, <<"A", "m", "p", "e", "r", "e">>, <<"8", "0">>),
     \* a row that ends after its second cell
     GreenCsvRow(<<"Q">>, <<"6", "5">>, NoneCell, NoneCell, NoneCell),
     \* an infinite count
     GreenCsvRow(<<"Q">>, <<"6", "5">>, <<"I", "n", "f", "i", "n", "i", "t", "y">>, <<"A", "M", "D">>, <<"1", "2">>),
     \* a count that is not a number
     GreenCsvRow(<<"Q">>, <<"0", ".", "7">>, <<"N", "a", "N">>, <<"A", "M", "D">>, <<"1", "0">>),
     \* a record separator before the unit: str.strip() would remove it, float() refuses it
     GreenCsvRow(<<"M">>, <<"6", "5", "U+001E", "W">>, <<"6">>, <<"A", "M", "D">>, <<"1", "2">>),
     \* an exponent; a quotient that is rounded
     GreenCsvRow(<<"M">>, <<"0", ".", "7">>, <<"1", "e", "1">>, <<"A", "M", "D">>, <<"1", "0">>)}

IntelBaseFile ==
    IntelFile(FALSE, <<<<"I", "n", "t", "e", "l", RegSign, " ", "Q">>>>, <<Attr("Product Collection", <<<<"C", "o", "r", "e">>>>), Attr("Total Cores", <<<<"8">>>>), Attr("Total Threads", <<<<"1", "6">>>>), Attr("TDP", <<<<"9", "5", "W">>>>)>>)
IntelNoPowerRow ==
    IntelFile(FALSE, <<<<"I", "n", "t", "e", "l", RegSign, " ", "X">>>>, <<Attr("Launch Date", <<<<"Q", "3">>>>), Attr("Total Cores", <<<<"2">>>>), Attr("Total Threads", <<<<"4">>>>)>>)
IntelNoCoresRow ==
    IntelFile(FALSE, <<<<"I", "n", "t", "e", "l", RegSign, " ", "Q">>>>, <<Attr("TDP", <<<<"9", "5", "W">>>>), Attr("Total Threads", <<<<"1", "6">>>>)>>)
IntelNoThreadsRow ==
    IntelFile(FALSE, <<<<"I", "n", "t", "e", "l", RegSign, " ", "Q">>>>, <<Attr("TDP", <<<<"9", "5", "W">>>>), Attr("Total Cores", <<<<"8">>>>)>>)

IntelSamples ==
    {IntelBaseFile, IntelNoPowerRow, IntelNoCoresRow, IntelNoThreadsRow,
     \* two columns, a TDP row that ends after the first
     IntelFile(FALSE, <<<<"I", "n", "t", "e", "l", RegSign, " ", "Q">>, <<"I", "n", "t", "e", "l", RegSign, " ", "i", "9", TmSign>>>>, <<Attr("Total Cores", <<<<"4">>, <<"8">>>>), Attr("Total Threads", <<<<"8">>, <<"1", "6">>>>), Attr("TDP", <<<<"6", "5", " ", "W">>>>)>>),
     \* no TDP row, a Processor Base Power row
     IntelFile(FALSE, <<<<"I", "n", "t", "e", "l", RegSign, " ", "Q">>>>, <<Attr("Processor Base Power", <<<<"1", "2", "5", " ", "W">>>>), Attr("Total Cores", <<<<"6">>>>), Attr("Total Threads", <<<<"1", "2">>>>)>>),
     \* an empty TDP cell beside a Processor Base Power cell
     IntelFile(FALSE, <<<<"I", "n", "t", "e", "l", RegSign, " ", "i", "7">>>>, <<Attr("TDP", <<<<>>>>), Attr("Processor Base Power", <<<<"3", "5", " ", "W">>>>), Attr("Total Cores", <<<<"4">>>>), Attr("Total Threads", <<<<"8">>>>)>>),
     \* a range
     IntelFile(FALSE, <<<<"I", "n", "t", "e", "l", RegSign, " ", "M">>>>, <<Attr("TDP", <<<<"1", "5", "-", "2", "5", " ", "W">>>>), Attr("Total Cores", <<<<"4">>>>), Attr("Total Threads", <<<<"8">>>>)>>),
     \* a TDP that is no number
     IntelFile(FALSE, <<<<"I", "n", "t", "e", "l", RegSign, " ", "Q">>>>, <<Attr("TDP", <<<<"x">>>>), Attr("Total Cores", <<<<"8">>>>), Attr("Total Threads", <<<<"1", "6">>>>)>>),
     \* a file that ends before its header row
     IntelFile(TRUE, <<>>, <<>>),
     \* a TDP row longer than the header row
     IntelFile(FALSE, <<<<"I", "n", "t", "e", "l", RegSign, " ", "Q">>>>, <<Attr("TDP", <<<<"9", "5", "W">>, <<"6", "5", "W">>>>), Attr("Total Cores", <<<<"8">>>>), Attr("Total Threads", <<<<"1", "6">>>>)>>),
     \* a quotient that is rounded, a count with white space, a count with an underscore
     IntelFile(FALSE, <<<<"I", "n", "t", "e", "l", RegSign, " ", "M">>>>, <<Attr("TDP", <<<<"1", ".", "1", " ", "W">>>>), Attr("Total Cores", <<<<"\t", "7">>>>), Attr("Total Threads", <<<<"1", "_", "4">>>>)>>),
     \* two columns of one name
     IntelFile(FALSE, <<<<"I", "n", "t", "e", "l", RegSign, " ", "Q">>, <<"I", "n", "t", "e", "l", RegSign, " ", "Q">>>>, <<Attr("TDP", <<<<"9", "5", "W">>, <<"6", "5", "W">>>>), Attr("Total Cores", <<<<"8">>, <<"4">>>>), Attr("Total Threads", <<<<"1", "6">>, <<"8">>>>)>>)}


Missing == [status |-> "missing", fieldnames |-> {}, rows |-> <<>>]
Empty == [status |-> "empty", fieldnames |-> {}, rows |-> <<>>]
CsvFile(fieldnames, rows) == [status |-> "ok", fieldnames |-> fieldnames, rows |-> rows]
MissingDir == [status |-> "missing", list |-> <<>>]
Dir(list) == [status |-> "ok", list |-> list]

\* a file whose header line lacks column h
Without(headers, row, h) ==
    CsvFile(headers \ {h}, <<[x \in headers \ {h} |-> row[x]]>>)

\* the well-formed input of each source: one row, or one family file of one column
Base ==
    [amd |-> CsvFile(AmdHeaders, <<AmdCsvRow(<<"A", "M", "D", " ", "Q">>, <<"1", "0", "5", "W">>, <<"8">>, <<"1", "6">>)>>),
     altra |-> CsvFile(AltraHeaders, <<AltraCsvRow(<<"Q">>, <<"8", "0">>, <<"1", "5", "0">>)>>),
     one |-> CsvFile(OneHeaders, <<OneCsvRow(<<"Q", RegSign>>, <<"1", "9", "2">>, <<"4", "0", "0", "W">>)>>),
     intel |-> Dir(<<IntelBaseFile>>),
     ga |-> CsvFile(GreenHeaders, <<GreenCsvRow(<<"Q">>, <<"6", "5">>, <<"6">>, <<"A", "M", "D">>, <<"1", "2">>)>>)]

\* each source well-formed, absent, or lacking a column or an attribute row its
\* parser reads; an AMD file that names the processor of the Ampere Altra file;
\* an Intel directory without files
Availability(src) ==
    {Base[src]} \cup
    (CASE src = "amd" -> {Missing, Without(AmdHeaders, Base.amd.rows[1], "# of CPU Cores"),
                          CsvFile(AmdHeaders, <<AmdCsvRow(sAmpereAltra \o <<"Q">>, <<"2", "5", "0", "W">>, <<"6", "4">>, <<"6", "4">>)>>)}
       [] src = "altra" -> {Missing, Without(AltraHeaders, Base.altra.rows[1], "CORES")}
       [] src = "one" -> {Missing, Without(OneHeaders, Base.one.rows[1], "Usage Power*")}
       [] src = "ga" -> {Missing, Without(GreenHeaders, Base.ga.rows[1], "threads")}
       [] src = "intel" -> {MissingDir, Dir(<<>>), Dir(<<IntelNoCoresRow>>),
                            Dir(<<IntelNoThreadsRow>>), Dir(<<IntelNoPowerRow>>)})

SourceNames == {"amd", "altra", "one", "intel", "ga"}
CsvSources == {"amd", "altra", "one", "ga"}

Headers(src) ==
    CASE src = "amd" -> AmdHeaders
      [] src = "altra" -> AltraHeaders
      [] src = "one" -> OneHeaders
      [] src = "ga" -> GreenHeaders

Samples(src) ==
    CASE src = "amd" -> AmdSamples
      [] src = "altra" -> AltraSamples
      [] src = "one" -> OneSamples
      [] src = "ga" -> GreenSamples

\* the inputs of a run: any combination of well-formed, absent and column-less
\* sources; or, beside well-formed others, one source lacking any one column, or
\* with any content up to the bounds: an empty file, any rows, any family files
Inputs(f) ==
    \/ \E a \in Availability("amd"), l \in Availability("altra"), o \in Availability("one"),
          n \in Availability("intel"), g \in Availability("ga") :
           f = [amd |-> a, altra |-> l, one |-> o, intel |-> n, ga |-> g]
    \/ \E src \in CsvSources : \E h \in Headers(src) :
           f = [Base EXCEPT ![src] = Without(Headers(src), Base[src].rows[1], h)]
    \/ \E src \in CsvSources : f = [Base EXCEPT ![src] = Empty]
    \/ \E src \in CsvSources, k \in 0..MaxRows : \E r \in [1..k -> Samples(src)] :
           f = [Base EXCEPT ![src] = CsvFile(Headers(src), r)]
    \/ \E k \in 0..MaxFiles : \E l \in [1..k -> IntelSamples] :
           f = [Base EXCEPT !.intel = Dir(l)]

Init ==
    /\ Inputs(files)
    /\ pc = "amd"
    /\ i = 1
    /\ fileIdx = 1
    /\ processor_data = <<>>
    /\ tdp = Unbound
    /\ processors = <<>>
    /\ log = <<>>
    /\ out = NotWritten
    /\ err = NoError
    /\ df = <<>>
    /\ updated = NotWritten

Next ==
    \/ read_and_process_amd
    \/ read_and_process_amd_row
    \/ read_and_process_ampere_altra
    \/ read_and_process_ampere_altra_row
    \/ read_and_process_ampere_one
    \/ read_and_process_ampere_one_row
    \/ read_and_process_intel
    \/ read_and_process_intel_file
    \/ read_and_process_intel_column
    \/ read_and_process_green_algorithms
    \/ read_and_process_green_algorithms_row
    \/ write_output

Spec == Init /\ [][Next]_vars

----------------------------------------------------------------------------
(* GreenAlgorithms/pre_process.py *)

sXeon == <<"X", "e", "o", "n">>
sCore == <<"C", "o", "r", "e">>
sAny == <<"A", "n", "y">>

amd_cpus_threads ==
    (<<"A", "8", "-", "7", "6", "8", "0">> :> 4) @@
    (<<"A", "9", "-", "9", "4", "2", "5", " ", "S", "o", "C">> :> 2) @@
    (<<"7", "5", "5", "2">> :> 96) @@
    (<<"E", "P", "Y", "C", " ", "7", "2", "5", "1">> :> 16) @@
    (<<"A", "t", "h", "l", "o", "n", " ", "3", "0", "0", "0", "G">> :> 4) @@
    (<<"F", "X", "-", "6", "3", "0", "0">> :> 6) @@
    (<<"F", "X", "-", "8", "3", "5", "0">> :> 8) @@
    (<<"R", "y", "z", "e", "n", " ", "3", " ", "2", "2", "0", "0", "G">> :> 4) @@
    (<<"R", "y", "z", "e", "n", " ", "3", " ", "3", "2", "0", "0", "G">> :> 4) @@
    (<<"R", "y", "z", "e", "n", " ", "3", " ", "3", "2", "0", "0", "U">> :> 4) @@
    (<<"R", "y", "z", "e", "n", " ", "5", " ", "1", "6", "0", "0">> :> 12) @@
    (<<"R", "y", "z", "e", "n", " ", "5", " ", "2", "6", "0", "0">> :> 12) @@
    (<<"R", "y", "z", "e", "n", " ", "5", " ", "3", "4", "0", "0", "G">> :> 8) @@
    (<<"R", "y", "z", "e", "n", " ", "5", " ", "3", "5", "0", "0", "U">> :> 8) @@
    (<<"R", "y", "z", "e", "n", " ", "5", " ", "3", "6", "0", "0">> :> 12) @@
    (<<"R", "y", "z", "e", "n", " ", "5", " ", "3", "6", "0", "0", "X">> :> 12) @@
    (<<"R", "y", "z", "e", "n", " ", "7", " ", "2", "7", "0", "0", "X">> :> 16) @@
    (<<"R", "y", "z", "e", "n", " ", "7", " ", "3", "7", "0", "0", "X">> :> 16) @@
    (<<"R", "y", "z", "e", "n", " ", "7", " ", "3", "8", "0", "0", "X">> :> 16) @@
    (<<"R", "y", "z", "e", "n", " ", "9", " ", "3", "9", "0", "0", "X">> :> 24) @@
    (<<"R", "y", "z", "e", "n", " ", "9", " ", "3", "9", "5", "0", "X">> :> 32) @@
    (<<"R", "y", "z", "e", "n", " ", "T", "h", "r", "e", "a", "d", "r", "i", "p", "p", "e", "r", " ", "2", "9", "9", "0", "W", "X">> :> 64) @@
    (<<"R", "y", "z", "e", "n", " ", "T", "h", "r", "e", "a", "d", "r", "i", "p", "p", "e", "r", " ", "3", "9", "9", "0", "X">> :> 128)

intel_cpus_threads ==
    (<<"C", "o", "r", "e", " ", "2", " ", "Q", "u", "a", "d", " ", "Q", "6", "6", "0", "0">> :> 4) @@
    (<<"C", "o", "r", "e", " ", "i", "3", "-", "1", "0", "1", "0", "0">> :> 8) @@
    (<<"C", "o", "r", "e", " ", "i", "3", "-", "1", "0", "3", "0", "0">> :> 8) @@
    (<<"C", "o", "r", "e", " ", "i", "3", "-", "1", "0", "3", "2", "0">> :> 8) @@
    (<<"C", "o", "r", "e", " ", "i", "3", "-", "1", "0", "3", "5", "0", "K">> :> 8) @@
    (<<"C", "o", "r", "e", " ", "i", "3", "-", "9", "1", "0", "0">> :> 4) @@
    (<<"C", "o", "r", "e", " ", "i", "3", "-", "9", "1", "0", "0", "F">> :> 4) @@
    (<<"C", "o", "r", "e", " ", "i", "5", "-", "1", "0", "4", "0", "0">> :> 12) @@
    (<<"C", "o", "r", "e", " ", "i", "5", "-", "1", "0", "4", "0", "0", "F">> :> 12) @@
    (<<"C", "o", "r", "e", " ", "i", "5", "-", "1", "0", "5", "0", "0">> :> 12) @@
    (<<"C", "o", "r", "e", " ", "i", "5", "-", "1", "0", "6", "0", "0">> :> 12) @@
    (<<"C", "o", "r", "e", " ", "i", "5", "-", "1", "0", "6", "0", "0", "K">> :> 12) @@
    (<<"C", "o", "r", "e", " ", "i", "5", "-", "3", "5", "7", "0", "K">> :> 4) @@
    (<<"C", "o", "r", "e", " ", "i", "5", "-", "4", "4", "6", "0">> :> 4) @@
    (<<"C", "o", "r", "e", " ", "i", "5", "-", "9", "4", "0", "0">> :> 6) @@
    (<<"C", "o", "r", "e", " ", "i", "5", "-", "9", "4", "0", "0", "F">> :> 6) @@
    (<<"C", "o", "r", "e", " ", "i", "5", "-", "9", "6", "0", "0", "K", "F">> :> 6) @@
    (<<"C", "o", "r", "e", " ", "i", "7", "-", "1", "0", "7", "0", "0">> :> 16) @@
    (<<"C", "o", "r", "e", " ", "i", "7", "-", "1", "0", "7", "0", "0", "K">> :> 16) @@
    (<<"C", "o", "r", "e", " ", "i", "7", "-", "4", "9", "3", "0", "K">> :> 12) @@
    (<<"C", "o", "r", "e", " ", "i", "7", "-", "6", "7", "0", "0", "K">> :> 8) @@
    (<<"C", "o", "r", "e", " ", "i", "7", "-", "8", "7", "0", "0", "K">> :> 12) @@
    (<<"C", "o", "r", "e", " ", "i", "7", "-", "9", "7", "0", "0", "F">> :> 8) @@
    (<<"C", "o", "r", "e", " ", "i", "7", "-", "9", "7", "0", "0", "K">> :> 8) @@
    (<<"C", "o", "r", "e", " ", "i", "9", "-", "1", "0", "9", "0", "0", "K">> :> 20) @@
    (<<"C", "o", "r", "e", " ", "i", "9", "-", "1", "0", "9", "0", "0", "K", "F">> :> 20) @@
    (<<"C", "o", "r", "e", " ", "i", "9", "-", "1", "0", "9", "0", "0", "X", "E">> :> 20) @@
    (<<"C", "o", "r", "e", " ", "i", "9", "-", "1", "0", "9", "2", "0", "X", "E">> :> 24) @@
    (<<"C", "o", "r", "e", " ", "i", "9", "-", "9", "9", "0", "0", "K">> :> 16) @@
    (<<"X", "e", "o", "n", " ", "E", "5", "-", "2", "6", "6", "0", " ", "v", "3">> :> 20) @@
    (<<"X", "e", "o", "n", " ", "E", "5", "-", "2", "6", "6", "5">> :> 16) @@
    (<<"X", "e", "o", "n", " ", "E", "5", "-", "2", "6", "7", "0">> :> 16) @@
    (<<"X", "e", "o", "n", " ", "E", "5", "-", "2", "6", "7", "0", " ", "v", "2">> :> 20) @@
    (<<"X", "e", "o", "n", " ", "E", "5", "-", "2", "6", "8", "0", " ", "v", "3">> :> 24) @@
    (<<"X", "e", "o", "n", " ", "E", "5", "-", "2", "6", "8", "3", " ", "v", "4">> :> 32) @@
    (<<"X", "e", "o", "n", " ", "E", "5", "-", "2", "6", "9", "0", " ", "v", "2">> :> 20) @@
    (<<"X", "e", "o", "n", " ", "E", "5", "-", "2", "6", "9", "0", " ", "v", "3">> :> 24) @@
    (<<"X", "e", "o", "n", " ", "E", "5", "-", "2", "6", "9", "5", " ", "v", "4">> :> 36) @@
    (<<"X", "e", "o", "n", " ", "E", "5", "-", "2", "6", "9", "7", " ", "v", "4">> :> 36) @@
    (<<"X", "e", "o", "n", " ", "E", "5", "-", "2", "6", "9", "9", " ", "v", "3">> :> 36) @@
    (<<"X", "e", "o", "n", " ", "E", "5", "-", "2", "6", "9", "9", " ", "v", "4">> :> 44) @@
    (<<"X", "e", "o", "n", " ", "E", "5", "-", "4", "6", "1", "0", " ", "v", "4">> :> 20) @@
    (<<"X", "e", "o", "n", " ", "E", "5", "-", "4", "6", "2", "0">> :> 16) @@
    (<<"X", "e", "o", "n", " ", "E", "5", "-", "4", "6", "5", "0", "L">> :> 16) @@
    (<<"X", "e", "o", "n", " ", "E", "7", "-", "8", "8", "6", "7", " ", "v", "3">> :> 32) @@
    (<<"X", "e", "o", "n", " ", "E", "7", "-", "8", "8", "8", "0", " ", "v", "4">> :> 44) @@
    (<<"X", "e", "o", "n", " ", "G", "o", "l", "d", " ", "6", "1", "4", "2">> :> 32) @@
    (<<"X", "e", "o", "n", " ", "G", "o", "l", "d", " ", "6", "1", "4", "8">> :> 40) @@
    (<<"X", "e", "o", "n", " ", "G", "o", "l", "d", " ", "6", "2", "4", "8">> :> 40) @@
    (<<"X", "e", "o", "n", " ", "G", "o", "l", "d", " ", "6", "2", "5", "2">> :> 48) @@
    (<<"X", "e", "o", "n", " ", "L", "5", "6", "4", "0">> :> 12) @@
    (<<"X", "e", "o", "n", " ", "P", "h", "i", " ", "5", "1", "1", "0", "P">> :> 240) @@
    (<<"X", "e", "o", "n", " ", "P", "l", "a", "t", "i", "n", "u", "m", " ", "9", "2", "8", "2">> :> 112) @@
    (<<"X", "e", "o", "n", " ", "X", "3", "4", "3", "0">> :> 4) @@
    (<<"X", "e", "o", "n", " ", "X", "5", "6", "6", "0">> :> 12)

\* the lookup made in the AMD table alone
AmdThreadsOnly == amd_cpus_threads

\* amd_cpus_threads | intel_cpus_threads: on a key of both, the right operand's value
all_cpus_threads == intel_cpus_threads @@ amd_cpus_threads

\* lambda x: 'Intel' if 'Xeon' in x or 'Core' in x else 'AMD'
Manufacturer(x) == IF Contains(x, sXeon) \/ Contains(x, sCore) THEN sIntel ELSE sAMD

\* lambda x: x.replace("AMD","").strip()
CleanModel(x) == Strip(Replace(x, sAMD))

\* the rows of the dataset that df[df['model'] != 'Any'] keeps, in order
NotAny(rows) == SelectSeq(rows, LAMBDA r : r.model # sAny)

\* line 5-6: read the dataset and drop the placeholder row
pre_load ==
    /\ pc = "pre_load"
    /\ IF files.status = "missing"
       THEN pc' = "crashed" /\ err' = "FileNotFoundError" /\ df' = df
       ELSE pc' = "pre_manufacturer" /\ err' = err /\ df' = NotAny(files.rows)
    /\ UNCHANGED <<files, i, fileIdx, processor_data, tdp, processors, log, out, updated>>

\* line 10: the manufacturer column; a model that is NaN is no string
pre_manufacturer ==
    /\ pc = "pre_manufacturer"
    /\ IF \E k \in 1..Len(df) : df[k].model = NoneCell
       THEN pc' = "crashed" /\ err' = "TypeError" /\ df' = df
       ELSE /\ pc' = "pre_model" /\ err' = err
            /\ df' = [k \in 1..Len(df) |->
                         [model |-> df[k].model, cols |-> df[k].cols,
                          manufacturer |-> Manufacturer(df[k].model)]]
    /\ UNCHANGED <<files, i, fileIdx, processor_data, tdp, processors, log, out, updated>>

\* line 97: the model column cleaned
pre_model ==
    /\ pc = "pre_model"
    /\ pc' = "pre_threads"
    /\ df' = [k \in 1..Len(df) |-> [df[k] EXCEPT !.model = CleanModel(df[k].model)]]
    /\ UNCHANGED <<files, i, fileIdx, processor_data, tdp, processors, log, out, err, updated>>

\* line 98: the threads column, looked up by cleaned model
pre_threads ==
    /\ pc = "pre_threads"
    /\ IF \E k \in 1..Len(df) : df[k].model \notin DOMAIN all_cpus_threads
       THEN pc' = "crashed" /\ err' = "KeyError" /\ df' = df
       ELSE /\ pc' = "pre_write" /\ err' = err
            /\ df' = [k \in 1..Len(df) |->
                         [model |-> df[k].model, cols |-> df[k].cols,
                          manufacturer |-> df[k].manufacturer,
                          threads |-> all_cpus_threads[df[k].model]]]
    /\ UNCHANGED <<files, i, fileIdx, processor_data, tdp, processors, log, out, updated>>

\* line 101: df.to_csv
pre_write ==
    /\ pc = "pre_write"
    /\ pc' = "pre_done"
    /\ updated' = [written |-> TRUE,
                   header |-> <<"model", "cols", "manufacturer", "threads">>,
                   lines |-> df]
    /\ UNCHANGED <<files, i, fileIdx, processor_data, tdp, processors, log, out, err, df>>

\* a row of TDP_cpu.v2.2.csv: the model, and the columns the script passes through
DatasetRow(model) == [model |-> model, cols |-> <<"TDP", "n_cores", "TDP_per_core", "source">>]

PreSamples ==
    {DatasetRow(<<"A", "M", "D", " ", "R", "y", "z", "e", "n", " ", "5", " ", "3", "6", "0", "0">>),
     DatasetRow(<<"X", "e", "o", "n", " ", "L", "5", "6", "4", "0">>),
     DatasetRow(<<"C", "o", "r", "e", " ", "i", "3", "-", "9", "1", "0", "0">>),
     DatasetRow(<<"X", "e", "A", "M", "D", "o", "n", " ", "L", "5", "6", "4", "0">>),
     DatasetRow(<<"A", "M", "D", " ", "O", "p", "t", "e", "r", "o", "n">>),
     DatasetRow(<<"X", "e", "o", "n", " ", "Z">>),
     DatasetRow(<<"A", "n", "y">>),
     DatasetRow(NoneCell)}

\* the dataset: absent, or any rows up to the bound
PreInputs(f) ==
    \/ f = [status |-> "missing", rows |-> <<>>]
    \/ \E k \in 0..MaxPreRows : \E r \in [1..k -> PreSamples] : f = [status |-> "ok", rows |-> r]

InitPre ==
    /\ PreInputs(files)
    /\ pc = "pre_load"
    /\ i = 1
    /\ fileIdx = 1
    /\ processor_data = <<>>
    /\ tdp = Unbound
    /\ processors = <<>>
    /\ log = <<>>
    /\ out = NotWritten
    /\ err = NoError
    /\ df = <<>>
    /\ updated = NotWritten

NextPre ==
    \/ pre_load
    \/ pre_manufacturer
    \/ pre_model
    \/ pre_threads
    \/ pre_write

SpecPre == InitPre /\ [][NextPre]_vars

----------------------------------------------------------------------------
(* What each source yields: the loops of the parsers, run over a whole input *)

\* the loop body applied to every row of a DictReader source
Outcomes(src) ==
    LET rows == files[src].rows
    IN CASE src = "amd" -> [k \in 1..Len(rows) |-> AmdRow(rows[k])]
         [] src = "altra" -> [k \in 1..Len(rows) |-> AmpereAltraRow(rows[k])]
         [] src = "one" -> [k \in 1..Len(rows) |-> AmpereOneRow(rows[k])]
         [] src = "ga" -> [k \in 1..Len(rows) |-> GreenRow(rows[k])]

HeadersPresent(src) == files[src].status = "ok" /\ Headers(src) \subseteq files[src].fieldnames

\* the records of the outcomes that precede the first uncaught exception
RECURSIVE InsertedOf(_)
InsertedOf(os) ==
    IF os = <<>> \/ Head(os).kind = "raise" THEN <<>>
    ELSE (IF Head(os).kind = "insert" THEN <<Head(os).rec>> ELSE <<>>) \o InsertedOf(Tail(os))

\* the loop over the columns of one family file, from column k with tdp = t
RECURSIVE IntelColumns(_, _, _)
IntelColumns(data, k, t) ==
    IF k > Len(data) THEN [recs |-> <<>>, tdp |-> t, raised |-> FALSE]
    ELSE LET r == IntelColumn(data[k].name, data[k].details, t)
         IN IF r.o.kind = "raise" THEN [recs |-> <<>>, tdp |-> r.tdp, raised |-> TRUE]
            ELSE LET rest == IntelColumns(data, k + 1, r.tdp)
                 IN [recs |-> (IF r.o.kind = "insert" THEN <<r.o.rec>> ELSE <<>>) \o rest.recs,
                     tdp |-> rest.tdp, raised |-> rest.raised]

\* the loop over the family files, from file k with tdp = t
RECURSIVE IntelFiles(_, _, _)
IntelFiles(list, k, t) ==
    IF k > Len(list) THEN <<>>
    ELSE LET f == ReadIntelFile(list[k])
             c == IntelColumns(f.data, 1, t)
         IN IF f.exc # NoError THEN <<>>
            ELSE IF c.raised THEN c.recs
            ELSE c.recs \o IntelFiles(list, k + 1, c.tdp)

\* the records a source inserts, in order
Yield(src) ==
    IF src = "intel"
    THEN (IF files.intel.status = "ok" THEN IntelFiles(files.intel.list, 1, Unbound) ELSE <<>>)
    ELSE IF HeadersPresent(src) THEN InsertedOf(Outcomes(src)) ELSE <<>>

----------------------------------------------------------------------------
(* The claims *)

\* the last record of recs that has the model name key
LastWith(recs, key) ==
    recs[CHOOSE k \in 1..Len(recs) :
            recs[k].model = key /\ \A j \in (k + 1)..Len(recs) : recs[j].model # key]

\* the dict that inserting the records of recs in order builds
RECURSIVE DictOf(_)
DictOf(recs) ==
    IF recs = <<>> THEN <<>> ELSE DictSet(DictOf(SubSeq(recs, 1, Len(recs) - 1)), recs[Len(recs)])

\* C1: once all five parsers have run in the order AMD, Ampere Altra, Ampere One,
\* Intel, Green-Algorithms, a model name that two or more sources define has
\* exactly one record in the mapping, and that record is, field for field, the
\* last record of the latest source that defines the name.
C1_LastWriterWins ==
    pc = "done" =>
        \A ys \in {<<Yield("amd"), Yield("altra"), Yield("one"), Yield("intel"), Yield("ga")>>} :
            \A key \in UNION {{ys[n][k].model : k \in 1..Len(ys[n])} : n \in 1..Len(ys)} :
                LET defining == {n \in 1..Len(ys) : \E k \in 1..Len(ys[n]) : ys[n][k].model = key}
                    latest == CHOOSE n \in defining : \A m \in defining : m <= n
                IN Cardinality(defining) >= 2 =>
                    /\ Cardinality({k \in 1..Len(processors) : processors[k].model = key}) = 1
                    /\ Lookup(processors, key) = LastWith(ys[latest], key)

\* C1 witness: the run is over; the AMD file and the Ampere Altra file both
\* define "AmpereAltra Q" with different values, no later source defines it, and
\* the mapping holds the Ampere Altra record; the Ampere One file and the
\* Green-Algorithms file both define "Q" with different values, and the mapping
\* holds the Green-Algorithms record
C1_Witness ==
    /\ pc = "done"
    /\ \E k \in 1..Len(Yield("amd")) : Yield("amd")[k].model = sAmpereAltra \o <<"Q">>
    /\ \E k \in 1..Len(Yield("altra")) : Yield("altra")[k].model = sAmpereAltra \o <<"Q">>
    /\ LastWith(Yield("amd"), sAmpereAltra \o <<"Q">>).tdp
           # LastWith(Yield("altra"), sAmpereAltra \o <<"Q">>).tdp
    /\ \A src \in {"one", "intel", "ga"} :
           \A k \in 1..Len(Yield(src)) : Yield(src)[k].model # sAmpereAltra \o <<"Q">>
    /\ Lookup(processors, sAmpereAltra \o <<"Q">>).source = AltraUrl
    /\ \E k \in 1..Len(Yield("one")) : Yield("one")[k].model = <<"Q">>
    /\ \E k \in 1..Len(Yield("ga")) : Yield("ga")[k].model = <<"Q">>
    /\ LastWith(Yield("one"), <<"Q">>).tdp # LastWith(Yield("ga"), <<"Q">>).tdp
    /\ Lookup(processors, <<"Q">>).source = GreenUrl

\* a source that lacks a column (an attribute row, for Intel) its parser requires
LacksRequired(src) ==
    IF src = "intel"
    THEN /\ files.intel.status = "ok"
         /\ \E k \in 1..Len(files.intel.list) :
                LET keys == {files.intel.list[k].attrs[r].key : r \in 1..Len(files.intel.list[k].attrs)}
                IN \/ "Total Cores" \notin keys
                   \/ "Total Threads" \notin keys
                   \/ ("TDP" \notin keys /\ "Processor Base Power" \notin keys)
    ELSE files[src].status = "ok" /\ ~(Headers(src) \subseteq files[src].fieldnames)

IsMissing(src) == files[src].status = "missing"

\* the records of the sources of set S, in processing order
RECURSIVE YieldOf(_, _)
YieldOf(S, n) ==
    IF n > Len(Sources) THEN <<>>
    ELSE (IF Sources[n] \in S THEN Yield(Sources[n]) ELSE <<>>) \o YieldOf(S, n + 1)

\* C2: when every source is either well-formed or lacks one required column or
\* attribute row, the run reaches the final write, and the mapping is exactly the
\* one the well-formed sources alone build: a source lacking a column adds nothing.
C2_MissingHeaderSkipsSource ==
    (/\ pc \in {"done", "crashed"}
     /\ \A src \in SourceNames : files[src] = Base[src] \/ LacksRequired(src))
    => /\ pc = "done"
       /\ out.written
       /\ processors = DictOf(YieldOf({src \in SourceNames : ~LacksRequired(src)}, 1))

\* the inputs of C3: every source present with every column and attribute row,
\* every family file complete and rectangular
Rectangular(f) ==
    /\ ~f.truncated
    /\ \A r \in 1..Len(f.attrs) : Len(f.attrs[r].vals) = Len(f.names)

Readable ==
    /\ \A src \in SourceNames \ {"intel"} : HeadersPresent(src)
    /\ files.intel.status = "ok" /\ ~LacksRequired("intel")
    /\ \A k \in 1..Len(files.intel.list) : Rectangular(files.intel.list[k])

\* C3: a malformed row or column never ends the run, and every row that adds no
\* record is reported.
C3_MalformedRowSkipped ==
    (pc \in {"done", "crashed"} /\ Readable)
    => /\ pc = "done"
       /\ \A src \in SourceNames \ {"intel"} : \A k \in 1..Len(files[src].rows) :
              Outcomes(src)[k].kind # "insert"
              => \E n \in 1..Len(log) : log[n] = Printed("Error processing row", src, k)

\* C4: when every input is either well-formed or missing, the run ends with the
\* final CSV written from the records of the sources that are present, and every
\* missing input has been reported.
C4_MissingInputSkipped ==
    (/\ pc \in {"done", "crashed"}
     /\ \A src \in SourceNames : files[src] = Base[src] \/ IsMissing(src))
    => /\ pc = "done"
       /\ out = OutputOf(DictOf(YieldOf({src \in SourceNames : ~IsMissing(src)}, 1)))
       /\ \A src \in SourceNames :
              IsMissing(src) => \E n \in 1..Len(log) : log[n] = Printed("File not found", src, 0)

\* C5: no model name of the mapping contains "AMD", "Intel", the registered sign
\* or the trademark sign.
C5_NoDecorationSurvives ==
    \A k \in 1..Len(processors) :
        /\ ~Contains(processors[k].model, sAMD)
        /\ ~Contains(processors[k].model, sIntel)
        /\ ~Contains(processors[k].model, <<RegSign>>)
        /\ ~Contains(processors[k].model, <<TmSign>>)


RowPc(src) ==
    CASE src = "amd" -> "amd_rows" [] src = "altra" -> "altra_rows"
      [] src = "one" -> "one_rows" [] src = "ga" -> "ga_rows"

TdpHeader(src) ==
    CASE src = "amd" -> "Default TDP" [] src = "altra" -> "USAGE POWER (W)"
      [] src = "one" -> "Usage Power*" [] src = "ga" -> "TDP"

Body(src, row) ==
    CASE src = "amd" -> AmdRow(row) [] src = "altra" -> AmpereAltraRow(row)
      [] src = "one" -> AmpereOneRow(row) [] src = "ga" -> GreenRow(row)

\* the two bounds of a TDP cell "a-b", with or without the unit
RangeParts(cell) == Split(Replace(Strip(cell), <<"W">>))

IsRange(cell) ==
    /\ cell # NoneCell
    /\ Len(RangeParts(cell)) = 2
    /\ PyFloat(RangeParts(cell)[1]).ok /\ PyFloat(RangeParts(cell)[1]).v.cls = "fin"
    /\ PyFloat(RangeParts(cell)[2]).ok /\ PyFloat(RangeParts(cell)[2]).v.cls = "fin"

\* x is the float (a + b) / 2
IsMidpoint(x, a, b) == x = FDiv(FAdd(a, b), FloatOfNat(2))

\* the record the row yields with a plain number in its TDP cell
WithPlainTdp(src, row) == Body(src, [row EXCEPT ![TdpHeader(src)] = <<"1">>])

\* after the loop body has run on row i of source src: the row's record is in the
\* mapping with the midpoint of the range as its tdp
RangeAveraged(src) ==
    LET row == files[src].rows[i]
        a == PyFloat(RangeParts(row[TdpHeader(src)])[1]).v
        b == PyFloat(RangeParts(row[TdpHeader(src)])[2]).v
    IN (/\ pc = RowPc(src)
        /\ IsRange(row[TdpHeader(src)])
        /\ WithPlainTdp(src, row).kind = "insert")
       => /\ HasKey(processors', WithPlainTdp(src, row).rec.model)
          /\ IsMidpoint(Lookup(processors', WithPlainTdp(src, row).rec.model).tdp, a, b)

\* the counts of a processor column are integers
HasCounts(details) ==
    /\ "Total Cores" \in DOMAIN details /\ PyInt(details["Total Cores"]).ok
    /\ "Total Threads" \in DOMAIN details /\ PyInt(details["Total Threads"]).ok

\* after the loop body has run on column i of an Intel family file whose TDP cell
\* is a range: the mapping holds a record of the Intel source with the column's
\* core count and the midpoint of the range as its tdp
RangeAveragedIntel ==
    (/\ pc = "intel_cols"
     /\ "TDP" \in DOMAIN processor_data[i].details
     /\ IsRange(processor_data[i].details["TDP"])
     /\ HasCounts(processor_data[i].details))
    => \E k \in 1..Len(processors') :
           /\ processors'[k].source = IntelUrl
           /\ processors'[k].n_cores = PyInt(processor_data[i].details["Total Cores"]).v
           /\ IsMidpoint(processors'[k].tdp,
                         PyFloat(RangeParts(processor_data[i].details["TDP"])[1]).v,
                         PyFloat(RangeParts(processor_data[i].details["TDP"])[2]).v)

\* C6: in every parser, a row (a processor column, for Intel) whose TDP cell is a
\* range "a-b" and whose other cells are well-formed is not dropped: it puts a
\* record with tdp (a+b)/2 into the mapping.
C6_RangeAveragedEverywhere ==
    [][(\A src \in CsvSources : RangeAveraged(src)) /\ RangeAveragedIntel]_vars

\* q is the float t / n, for a float t and an int n that a float can hold
IsQuotient(q, t, n) == q = FDiv(t, IntToFloat(n).v)

\* the errors a division raises
DivisionErrors == {"ZeroDivisionError", OverflowError}

CoresHeader(src) ==
    CASE src = "amd" -> "# of CPU Cores" [] src = "altra" -> "CORES"
      [] src = "one" -> "Core Count" [] src = "ga" -> "n_cores"

\* the step ends the run with an error of a division: the error is none that
\* int(float(...)) raised when it read the core count, the one other place of
\* the parsers where such an error arises
DivisionFails ==
    /\ err = NoError
    /\ err' \in DivisionErrors
    /\ ~\E src \in {"altra", "ga"} :
           /\ pc = RowPc(src)
           /\ IntOfFloatOf(Strip(files[src].rows[i][CoresHeader(src)])).exc = err'

\* C7: every record has integers n_cores >= 0 and n_threads >= 0, tdp_per_core
\* = tdp / n_cores when n_cores > 0 and 0 when n_cores = 0, likewise per thread,
\* and no row ends the run with an error of the division.
C7_PerUnitNonNegative ==
    /\ [](\A k \in 1..Len(processors) :
            LET r == processors[k]
            IN /\ r.n_cores.cls = "int" /\ ~r.n_cores.neg
               /\ r.n_threads.cls = "int" /\ ~r.n_threads.neg
               /\ IsPositive(r.n_cores) => IsQuotient(r.tdp_per_core, r.tdp, r.n_cores)
               /\ IsZero(r.n_cores) => IsZero(r.tdp_per_core)
               /\ IsPositive(r.n_threads) => IsQuotient(r.tdp_per_thread, r.tdp, r.n_threads)
               /\ IsZero(r.n_threads) => IsZero(r.tdp_per_thread))
    /\ [][~DivisionFails]_vars

\* the models pre_process.py works on, as the dataset gives them
RawModels == [k \in 1..Len(NotAny(files.rows)) |-> NotAny(files.rows)[k].model]

PreTerminal == {"pre_done", "crashed"}

\* the runs of pre_process.py C8 is about: the dataset is there and every model is text
PreReadable ==
    /\ files.status = "ok"
    /\ \A k \in 1..Len(RawModels) : RawModels[k] # NoneCell

TableOf(manufacturer) ==
    IF manufacturer = sIntel THEN intel_cpus_threads ELSE amd_cpus_threads

\* C8 as claimed: the manufacturer is Intel when the raw model contains "Xeon" or
\* "Core" and AMD otherwise; when a cleaned model is absent from the table of its
\* inferred manufacturer the run fails with a lookup error and writes nothing.
C8_LookupInOwnTable ==
    (pc \in PreTerminal /\ PreReadable)
    => /\ (\E k \in 1..Len(RawModels) :
              CleanModel(RawModels[k]) \notin DOMAIN TableOf(Manufacturer(RawModels[k])))
          => (err = "KeyError" /\ ~updated.written)
       /\ pc = "pre_done"
          => \A k \in 1..Len(RawModels) :
                 updated.lines[k].manufacturer
                     = (IF Contains(RawModels[k], sXeon) \/ Contains(RawModels[k], sCore)
                        THEN sIntel ELSE sAMD)

InSomeTable(model) == model \in DOMAIN amd_cpus_threads \cup DOMAIN intel_cpus_threads

\* C8 as amended: the manufacturer is Intel when the raw model contains "Xeon" or
\* "Core" and AMD otherwise; the thread count of a cleaned model is looked up in
\* the union of the two tables, whatever the inferred manufacturer; the run fails
\* with a lookup error, and writes nothing, exactly when a cleaned model is in
\* neither table.
C8_LookupInMergedTable ==
    (pc \in PreTerminal /\ PreReadable)
    => /\ (\E k \in 1..Len(RawModels) : ~InSomeTable(CleanModel(RawModels[k])))
          <=> (err = "KeyError")
       /\ err = "KeyError" => ~updated.written /\ pc = "crashed"
       /\ err # "KeyError"
          => /\ pc = "pre_done" /\ updated.written
             /\ Len(updated.lines) = Len(RawModels)
             /\ \A k \in 1..Len(RawModels) :
                 LET m == CleanModel(RawModels[k])
                 IN /\ updated.lines[k].manufacturer
                         = (IF Contains(RawModels[k], sXeon) \/ Contains(RawModels[k], sCore)
                            THEN sIntel ELSE sAMD)
                    /\ updated.lines[k].model = m
                    /\ updated.lines[k].threads
                         = (IF m \in DOMAIN amd_cpus_threads
                            THEN amd_cpus_threads[m] ELSE intel_cpus_threads[m])

\* C8 witness: a model that is in neither table has ended the run with a lookup
\* error before anything was written
C8_Witness ==
    /\ pc = "crashed" /\ err = "KeyError" /\ ~updated.written
    /\ \E k \in 1..Len(RawModels) : ~InSomeTable(CleanModel(RawModels[k]))

\* the power cell of a column: TDP when it has a value, else Processor Base Power
OwnPower(details) ==
    IF "TDP" \in DOMAIN details /\ Strip(details["TDP"]) # <<>>
    THEN PyFloat(Replace(Strip(details["TDP"]), <<"W">>))
    ELSE IF "Processor Base Power" \in DOMAIN details
    THEN PyFloat(Replace(Strip(details["Processor Base Power"]), <<"W">>))
    ELSE [ok |-> FALSE, v |-> NaN]

\* C9: a processor column with a usable power value (its TDP cell, or its
\* Processor Base Power cell when the TDP value is absent) and well-formed counts
\* yields a record of the Intel source with that power as its tdp.
C9_PowerFallback ==
    [][(/\ pc = "intel_cols"
        /\ OwnPower(processor_data[i].details).ok
        /\ HasCounts(processor_data[i].details))
       => \E k \in 1..Len(processors') :
              /\ processors'[k].source = IntelUrl
              /\ processors'[k].tdp = OwnPower(processor_data[i].details).v
              /\ processors'[k].n_cores = PyInt(processor_data[i].details["Total Cores"]).v]_vars

\* C10: the tdp of a record the Intel parser stores is the value of that
\* processor's own TDP or Processor Base Power cell, and a column with neither
\* attribute changes nothing in the mapping.
C10_TdpFromOwnCell ==
    [][pc = "intel_cols"
       => LET d == processor_data[i].details
              own == IF "TDP" \in DOMAIN d
                     THEN PyFloat(Replace(Strip(d["TDP"]), <<"W">>))
                     ELSE IF "Processor Base Power" \in DOMAIN d
                     THEN PyFloat(Replace(Strip(d["Processor Base Power"]), <<"W">>))
                     ELSE [ok |-> FALSE, v |-> NaN]
          IN /\ ("TDP" \notin DOMAIN d /\ "Processor Base Power" \notin DOMAIN d)
                => processors' = processors
             /\ \A k \in 1..Len(processors') :
                    (k > Len(processors) \/ processors'[k] # processors[k])
                    => (own.ok /\ processors'[k].tdp = own.v)]_vars

====
